---- MODULE Spec2Model ----
(***************************************************************************)
(* Authorization and token-lifecycle subsystem of the Monarch MCP worker.  *)
(*                                                                         *)
(* The worker is a stateless request handler: all state lives in the       *)
(* OAUTH_KV key-value store.  Every store call (get, put, delete) is one   *)
(* atomic step; a handler that reads a record and deletes it afterwards    *)
(* is two steps, so that two requests can interleave between them.         *)
(* crypto.randomUUID() is modelled as a fresh identifier, SHA-256 as an    *)
(* injective table, the magic-link code as a random draw from a small      *)
(* pool (a draw can repeat), and time in seconds.                          *)
(***************************************************************************)
EXTENDS Integers, FiniteSets, Sequences, TLC

\* ---- bounds of the model --------------------------------------------------
MaxIds == 2          \* fresh identifiers available in each key namespace
MaxAccess == 3       \* fresh access-token identifiers
MaxMagic == 2        \* size of the pool the random magic-link code is drawn from
MaxTicks == 2        \* number of clock advances in one behaviour
MaxUnits == 2        \* code units of a plaintext, before its padding

\* ---- program constants (seconds) -----------------------------------------
StateTtl == 600          \* auth.ts createState expirationTtl
CodeTtl == 600           \* oauth-mcp.ts storeAuthorizationCode expirationTtl
PendingTtl == 600        \* index.ts /oauth/authorize pending params expirationTtl
MagicTtl == 600          \* auth-flow.ts generateMagicLink expirationTtl
SessionTtl == 604800     \* auth.ts createSession expirationTtl, 60*60*24*7
AccessTtl == 604800      \* oauth-mcp.ts generateAccessToken expirationTtl
RefreshTtl == 7776000    \* oauth-mcp.ts generateRefreshToken expirationTtl
TokenTtl == 7776000      \* auth.ts MonarchTokenManager.storeToken expirationTtl
Day == 86400             \* auth-flow.ts storeTokenWithMetadata, 24 * 60 * 60
ExpiryDays == 90         \* index.ts POST /auth/refresh, the expiryDays it passes
ClientTtl == 31536000    \* auth.ts registerClient expirationTtl, 60*60*24*365

\* ---- input domains --------------------------------------------------------
Procs == {1, 2}                      \* requests that can be in flight together
Users == {"u1", "u2"}                \* identity-provider accounts
ClientIds == {"c1"}
RedirectUris == {"r1", "r2"}
Verifiers == {"v1", "v2"}
ClientStates == {1}                  \* the client's opaque state parameter
None == "none"                       \* a missing string parameter or header
NoId == 0                            \* a missing identifier (cookie, code, token)
Null == [null |-> TRUE]              \* the store's null

Ids == 1..MaxIds
AccessIds == 1..MaxAccess
MagicCodes == 1..MaxMagic

\* base64url(SHA-256(verifier)): injective, and never the verifier itself
S256(v) == IF v = "v1" THEN "h1" ELSE IF v = "v2" THEN "h2" ELSE "h0"
Challenges == {S256(v) : v \in Verifiers}

\* the identity provider: the code it hands back stands for the account
\* that logged in; any other code makes the token exchange throw
IdpCodes == {"g-u1", "g-u2", "g-bad"}
IdpUser(code) == IF code = "g-u1" THEN "u1" ELSE IF code = "g-u2" THEN "u2" ELSE None

VARIABLES
  now,        \* the store's clock, seconds
  ticks,      \* clock advances so far
  kv,         \* OAUTH_KV and MONARCH_KV (their key prefixes are disjoint):
              \* key -> [val, exp]; a key is <<namespace, id>>
  nextId,     \* namespace -> next fresh identifier (crypto.randomUUID)
  proc,       \* the requests in flight, between two store calls
  last,       \* the exchange completed most recently: request, response, effects
  consumed,   \* history: one-time values whose successful validation has returned
  twice,      \* history: one-time values validated successfully more than once
  raced,      \* history: one-time values read by two requests before either delete
  minted,     \* history: one record for every token minted
  sessUser,   \* history: session id -> userId given to createSession
  codeVia,    \* history: code id -> the session cookie of the issuing request
  flow        \* the user agent that follows the identify detour

vars == <<now, ticks, kv, nextId, proc, last, consumed, twice, raced, minted, sessUser, codeVia, flow>>

\* ---- the key-value store ---------------------------------------------------
Key(ns, id) == <<ns, id>>
Live(k) == k \in DOMAIN kv /\ kv[k].exp > now
KVGet(k) == IF Live(k) THEN kv[k].val ELSE Null
KVPut(store, k, v, ttl) ==
  [x \in (DOMAIN store) \cup {k} |-> IF x = k THEN [val |-> v, exp |-> now + ttl] ELSE store[x]]
KVDelete(store, k) == [x \in (DOMAIN store) \ {k} |-> store[x]]
Purge(store, t) == [x \in {y \in DOMAIN store : store[y].exp > t} |-> store[x]]

\* what a completed handler changed, computed from the store before and after
Written(old, new) == {k \in DOMAIN new : k \notin DOMAIN old \/ old[k] # new[k]}
Deleted(old, new) == (DOMAIN old) \ (DOMAIN new)

HasFresh(ns) == nextId[ns] <= (IF ns = "oauth:access" THEN MaxAccess ELSE MaxIds)
RandomUUID(ns) == nextId[ns]
Bump(ns) == [nextId EXCEPT ![ns] = @ + 1]
Bump2(ns1, ns2) == [nextId EXCEPT ![ns1] = @ + 1, ![ns2] = @ + 1]

Namespaces ==
  {"oauth:state", "session", "oauth:code", "oauth:access", "oauth:refresh", "oauth:client"}

Idle == [pc |-> "idle"]
NoReq == [none |-> TRUE]
NoLoc == [path |-> None]
NoResult == [ok |-> FALSE, userId |-> None, clientId |-> None]
NoResp == [handler |-> None, req |-> NoReq, status |-> 0, error |-> None,
           location |-> NoLoc, cookie |-> NoId, wwwAuth |-> FALSE, mcp |-> FALSE,
           result |-> NoResult, seen |-> Null, sess |-> Null,
           access |-> NoId, refresh |-> NoId,
           after |-> FALSE, viaFlow |-> FALSE,
           reads |-> {}, written |-> {}, deleted |-> {}]
NoFlow == [phase |-> "start", req |-> NoReq, csrf |-> NoId, cookie |-> NoId,
           loc |-> NoLoc]

Init ==
  /\ now = 0
  /\ ticks = 0
  /\ kv = <<>>
  /\ nextId = [ns \in Namespaces |-> 1]
  /\ proc = [p \in Procs |-> Idle]
  /\ last = NoResp
  /\ consumed = {}
  /\ twice = {}
  /\ raced = {}
  /\ minted = {}
  /\ sessUser = <<>>
  /\ codeVia = <<>>
  /\ flow = NoFlow

\* time passes; the store drops every record whose TTL has elapsed
Tick(d) ==
  /\ ticks < MaxTicks
  /\ now' = now + d
  /\ kv' = Purge(kv, now + d)
  /\ ticks' = ticks + 1
  /\ UNCHANGED <<nextId, proc, last, consumed, twice, raced, minted, sessUser, codeVia, flow>>

\* ---- bookkeeping shared by the three one-time validations ------------------
\* p has just read key k and found it present: another request holding the
\* same record, read and not yet deleted, makes this a race
Holding(q, k) == proc[q].pc # "idle" /\ proc[q].key = k
RacedAfterRead(p, k, found) ==
  IF found /\ \E q \in Procs \ {p} : Holding(q, k) THEN raced \cup {k} ELSE raced
ConsumedAfter(k) == consumed \cup {k}
TwiceAfter(k) == IF k \in consumed THEN twice \cup {k} ELSE twice

\* ---- SessionManager (auth.ts) ----------------------------------------------
SessionData(userId) ==
  [userId |-> userId, username |-> userId, email |-> "", authenticated |-> TRUE]
CreateSession(store, sessionId, userId) ==
  KVPut(store, Key("session", sessionId), SessionData(userId), SessionTtl)
GetSession(sessionId) == KVGet(Key("session", sessionId))
\* a logout that ends every session
DeleteSessionEvery(store, sessionId) ==
  [k \in {j \in DOMAIN store : j[1] # "session"} |-> store[k]]
DeleteSession(store, sessionId) == KVDelete(store, Key("session", sessionId))

SessionOkPresent(session) == session # Null
\* index.ts: `!session || !session.authenticated` negated; a record without
\* the field reads as undefined, which is falsy
SessionOk(session) ==
  session # Null /\ "authenticated" \in DOMAIN session /\ session.authenticated

\* requireAuth: the session of the request, or Null when it redirects to login
RequireAuth(cookie) ==
  IF cookie = NoId THEN Null
  ELSE IF ~SessionOk(GetSession(cookie)) THEN Null ELSE GetSession(cookie)

\* ---- OAuthStateManager (auth.ts) -------------------------------------------
StateKey(state) == Key("oauth:state", state)
CreateStateWeek(store, state) == KVPut(store, StateKey(state), [marker |-> "valid"], SessionTtl)
CreateState(store, state) == KVPut(store, StateKey(state), [marker |-> "valid"], StateTtl)
ValidateStateNoDelete(store, state) == store
\* validateState after its get: the record is deleted only when it was found
ValidateStateDelete(store, state) == KVDelete(store, StateKey(state))

\* ---- GET /auth/login --------------------------------------------------------
\* the oauth_state query parameter is accepted and never read
AuthLogin(oauthState, viaFlow) ==
  /\ HasFresh("oauth:state")
  /\ viaFlow => flow.phase = "toLogin" /\ oauthState = flow.req.state
  /\ LET state == RandomUUID("oauth:state")
         kv2 == CreateState(kv, state)
     IN /\ kv' = kv2
        /\ nextId' = Bump("oauth:state")
        /\ last' = [NoResp EXCEPT !.handler = "/auth/login",
                      !.req = [oauth_state |-> oauthState],
                      !.status = 302,
                      !.location = [path |-> "idp/authorize", state |-> state,
                                    redirect_uri |-> "/auth/callback"],
                      !.viaFlow = viaFlow,
                      !.written = Written(kv, kv2)]
        /\ flow' = IF viaFlow THEN [flow EXCEPT !.phase = "atIdp", !.csrf = state]
                   ELSE flow
  /\ UNCHANGED <<now, ticks, proc, consumed, twice, raced, minted, sessUser, codeVia>>

\* ---- MCPOAuthManager (oauth-mcp.ts) ----------------------------------------
CodeKey(code) == Key("oauth:code", code)
AccessKey(token) == Key("oauth:access", token)
RefreshKey(token) == Key("oauth:refresh", token)
PendingKey(state) == Key("oauth:pending", state)

AuthCodeDataSwapped(userId, clientId, redirectUri, codeChallenge, codeChallengeMethod) ==
  [userId |-> clientId, clientId |-> userId, redirectUri |-> redirectUri,
   codeChallenge |-> codeChallenge, codeChallengeMethod |-> codeChallengeMethod,
   createdAt |-> now]
AuthCodeData(userId, clientId, redirectUri, codeChallenge, codeChallengeMethod) ==
  [userId |-> userId, clientId |-> clientId, redirectUri |-> redirectUri,
   codeChallenge |-> codeChallenge, codeChallengeMethod |-> codeChallengeMethod,
   createdAt |-> now]
StoreAuthorizationCode(store, code, userId, clientId, redirectUri, challenge, method) ==
  KVPut(store, CodeKey(code),
        AuthCodeData(userId, clientId, redirectUri, challenge, method), CodeTtl)

\* ---- GET /oauth/authorize --------------------------------------------------
AuthorizeBase == [client_id |-> "c1", redirect_uri |-> "r1", state |-> 1,
                  code_challenge |-> "h1", code_challenge_method |-> "S256",
                  response_type |-> "code"]
AuthorizeValid ==
  {[AuthorizeBase EXCEPT !.client_id = c, !.redirect_uri = r, !.state = s,
                         !.code_challenge = h] :
     c \in ClientIds, r \in RedirectUris, s \in ClientStates, h \in Challenges}
AuthorizeMalformed ==
  { [AuthorizeBase EXCEPT !.client_id = None],
    [AuthorizeBase EXCEPT !.redirect_uri = None],
    [AuthorizeBase EXCEPT !.state = NoId],
    [AuthorizeBase EXCEPT !.code_challenge = None],
    [AuthorizeBase EXCEPT !.code_challenge_method = "plain"],
    [AuthorizeBase EXCEPT !.code_challenge_method = None],
    [AuthorizeBase EXCEPT !.response_type = "token"],
    [AuthorizeBase EXCEPT !.response_type = None] }
AuthorizeReqs == AuthorizeValid \cup AuthorizeMalformed

AuthorizeRejectAnyMethod(req) ==
  IF req.client_id = None \/ req.redirect_uri = None \/ req.state = NoId
     \/ req.code_challenge = None
  THEN "invalid_request"
  ELSE IF req.response_type # "code" THEN "unsupported_response_type"
  ELSE None
\* the text of the n-th client id registerClient draws, as a client sends it
ClientIdText(n) == CASE n = 1 -> "c1" [] n = 2 -> "c2" [] n = 3 -> "c3" [] OTHER -> "c4"
\* the checks of an endpoint that looks the client up and requires the
\* redirect_uri to be one of its registered ones
AuthorizeRejectUnregistered(req) ==
  IF req.client_id = None \/ req.redirect_uri = None \/ req.state = NoId
     \/ req.code_challenge = None
  THEN "invalid_request"
  ELSE IF req.response_type # "code" THEN "unsupported_response_type"
  ELSE IF req.code_challenge_method # "S256" THEN "invalid_request"
  ELSE IF \E n \in Ids :
            /\ ClientIdText(n) = req.client_id
            /\ KVGet(Key("oauth:client", n)) # Null
            /\ \E i \in DOMAIN KVGet(Key("oauth:client", n)).redirect_uris.v :
                 KVGet(Key("oauth:client", n)).redirect_uris.v[i] = req.redirect_uri
  THEN None
  ELSE "invalid_client"
\* the checks with the method tested for presence only
AuthorizeRejectAbsentMethod(req) ==
  IF req.client_id = None \/ req.redirect_uri = None \/ req.state = NoId
     \/ req.code_challenge = None
  THEN "invalid_request"
  ELSE IF req.response_type # "code" THEN "unsupported_response_type"
  ELSE IF req.code_challenge_method = None THEN "invalid_request"
  ELSE None
\* the parameter checks made before any store access; None when they pass
AuthorizeReject(req) ==
  IF req.client_id = None \/ req.redirect_uri = None \/ req.state = NoId
     \/ req.code_challenge = None
  THEN "invalid_request"
  ELSE IF req.response_type # "code" THEN "unsupported_response_type"
  ELSE IF req.code_challenge_method # "S256" THEN "invalid_request"
  ELSE None

PendingData(req) ==
  [clientId |-> req.client_id, redirectUri |-> req.redirect_uri,
   codeChallenge |-> req.code_challenge,
   codeChallengeMethod |-> req.code_challenge_method]

\* the request the user agent sends when it follows a redirect to /oauth/authorize
AuthorizeFromLocation(loc) ==
  [client_id |-> loc.client_id, redirect_uri |-> loc.redirect_uri, state |-> loc.state,
   code_challenge |-> loc.code_challenge,
   code_challenge_method |-> loc.code_challenge_method,
   response_type |-> loc.response_type]

OAuthAuthorize(req, cookie, viaFlow) ==
  /\ viaFlow =>
       \/ flow.phase = "start" /\ cookie = NoId /\ req \in AuthorizeValid
       \/ flow.phase = "toAuthorize" /\ cookie = flow.cookie
            /\ req = AuthorizeFromLocation(flow.loc)
  /\ LET reject == AuthorizeReject(req)
         session == IF cookie # NoId THEN GetSession(cookie) ELSE Null
         sessReads == IF cookie # NoId THEN {Key("session", cookie)} ELSE {}
         code == RandomUUID("oauth:code")
         base == [NoResp EXCEPT !.handler = "/oauth/authorize", !.req = req,
                                !.cookie = cookie, !.viaFlow = viaFlow]
     IN IF reject # None
        THEN /\ last' = [base EXCEPT !.status = 400, !.error = reject]
             /\ UNCHANGED <<kv, nextId, codeVia, flow>>
        ELSE IF ~SessionOk(session)
        THEN LET kv2 == KVPut(kv, PendingKey(req.state), PendingData(req), PendingTtl)
             IN /\ kv' = kv2
                /\ last' = [base EXCEPT !.status = 302,
                              !.location = [path |-> "/auth/login",
                                            oauth_state |-> req.state],
                              !.sess = session,
                              !.reads = sessReads, !.written = Written(kv, kv2)]
                /\ flow' = IF viaFlow
                           THEN [flow EXCEPT !.phase = "toLogin",
                                   !.req = IF flow.phase = "start" THEN req ELSE @]
                           ELSE flow
                /\ UNCHANGED <<nextId, codeVia>>
        ELSE LET kv2 == StoreAuthorizationCode(kv, code, session.userId, req.client_id,
                          req.redirect_uri, req.code_challenge,
                          req.code_challenge_method)
                 loc == [path |-> req.redirect_uri, code |-> code, state |-> req.state]
             IN /\ HasFresh("oauth:code")
                /\ kv' = kv2
                /\ nextId' = Bump("oauth:code")
                /\ codeVia' = [c \in (DOMAIN codeVia) \cup {code} |->
                                 IF c = code
                                 THEN [cookie |-> cookie,
                                       sess |-> KVGet(Key("session", cookie)),
                                       req |-> req]
                                 ELSE codeVia[c]]
                /\ last' = [base EXCEPT !.status = 302, !.location = loc,
                              !.sess = session,
                              !.reads = sessReads, !.written = Written(kv, kv2)]
                /\ flow' = IF viaFlow
                           THEN [flow EXCEPT !.phase = "atClient", !.loc = loc]
                           ELSE flow
  /\ UNCHANGED <<now, ticks, proc, consumed, twice, raced, minted, sessUser>>

\* ---- GET /auth/callback ----------------------------------------------------
\* the redirect sent when the callback carried oauth_state and the pending
\* parameters are still stored
AuthorizeLocation(params, oauthState) ==
  [path |-> "/oauth/authorize", client_id |-> params.clientId,
   redirect_uri |-> params.redirectUri, state |-> oauthState,
   code_challenge |-> params.codeChallenge,
   code_challenge_method |-> params.codeChallengeMethod, response_type |-> "code"]

\* what the callback reads as its oauth_state query parameter
CallbackOauthState(req, fl) == req.oauth_state

\* first store call of the callback: validateState's get
AuthCallbackBegin(p, req, viaFlow) ==
  /\ proc[p].pc = "idle"
  /\ viaFlow => /\ flow.phase = "atIdp"
                /\ req.state = flow.csrf /\ req.oauth_state = NoId
                /\ IdpUser(req.code) # None
  /\ LET k == StateKey(req.state)
         value == KVGet(k)
         base == [NoResp EXCEPT !.handler = "/auth/callback", !.req = req,
                                !.viaFlow = viaFlow]
     IN IF req.code = None \/ req.state = NoId
        THEN /\ last' = [base EXCEPT !.status = 400, !.error = "missing_code_or_state"]
             /\ UNCHANGED <<proc, raced, flow>>
        ELSE IF value = Null
        THEN /\ last' = [base EXCEPT !.status = 400, !.error = "invalid_state",
                           !.reads = {k}, !.after = (k \in consumed)]
             /\ flow' = IF viaFlow THEN [flow EXCEPT !.phase = "failed"] ELSE flow
             /\ UNCHANGED <<proc, raced>>
        ELSE /\ proc' = [proc EXCEPT ![p] =
                           [pc |-> "callback", key |-> k, req |-> req, seen |-> value,
                            after |-> (k \in consumed), viaFlow |-> viaFlow]]
             /\ raced' = RacedAfterRead(p, k, TRUE)
             /\ flow' = IF viaFlow THEN [flow EXCEPT !.phase = "inCallback"] ELSE flow
             /\ UNCHANGED last
  /\ UNCHANGED <<now, ticks, kv, nextId, consumed, twice, minted, sessUser, codeVia>>

\* the rest of the callback: validateState's delete, the identity-provider
\* exchange, createSession, and the look-up of the pending parameters
AuthCallbackEnd(p) ==
  /\ proc[p].pc = "callback"
  /\ LET req == proc[p].req
         k == proc[p].key
         kv1 == ValidateStateDelete(kv, req.state)
         user == IdpUser(req.code)
         sessionId == RandomUUID("session")
         kv2 == CreateSession(kv1, sessionId, user)
         oauthState == CallbackOauthState(req, flow)
         pendingData == IF oauthState # NoId THEN KVGet(PendingKey(oauthState)) ELSE Null
         loc == IF pendingData # Null THEN AuthorizeLocation(pendingData, oauthState)
                ELSE [path |-> "/dashboard"]
         base == [NoResp EXCEPT !.handler = "/auth/callback", !.req = req,
                    !.viaFlow = proc[p].viaFlow, !.seen = proc[p].seen,
                    !.after = proc[p].after, !.result = [NoResult EXCEPT !.ok = TRUE]]
     IN IF user = None
        THEN /\ kv' = kv1
             /\ last' = [base EXCEPT !.status = 500, !.error = "oauth_error",
                           !.reads = {k}, !.written = Written(kv, kv1),
                           !.deleted = Deleted(kv, kv1)]
             /\ flow' = IF proc[p].viaFlow THEN [flow EXCEPT !.phase = "failed"] ELSE flow
             /\ UNCHANGED <<nextId, sessUser>>
        ELSE /\ HasFresh("session")
             /\ kv' = kv2
             /\ nextId' = Bump("session")
             /\ sessUser' = [x \in (DOMAIN sessUser) \cup {sessionId} |->
                               IF x = sessionId THEN user ELSE sessUser[x]]
             /\ last' = [base EXCEPT !.status = 302, !.location = loc,
                           !.cookie = sessionId,
                           !.reads = {k} \cup (IF oauthState # NoId
                                               THEN {PendingKey(oauthState)} ELSE {}),
                           !.written = Written(kv, kv2), !.deleted = Deleted(kv, kv2)]
             /\ flow' = IF proc[p].viaFlow
                        THEN [flow EXCEPT
                                !.phase = IF loc.path = "/oauth/authorize"
                                          THEN "toAuthorize" ELSE "dashboard",
                                !.cookie = sessionId, !.loc = loc]
                        ELSE flow
  /\ consumed' = ConsumedAfter(proc[p].key)
  /\ twice' = TwiceAfter(proc[p].key)
  /\ proc' = [proc EXCEPT ![p] = Idle]
  /\ UNCHANGED <<now, ticks, raced, minted, codeVia>>

CallbackReqs ==
  [code : IdpCodes \cup {None}, state : {NoId} \cup Ids,
   oauth_state : {NoId} \cup ClientStates]

\* ---- POST /oauth/token ------------------------------------------------------
RedirectAny(authData, redirectUri) == TRUE
RedirectOk(authData, redirectUri) == authData.redirectUri = redirectUri

PkceSkipped(authData, codeVerifier) == TRUE
\* validateAuthorizationCode: the verifier is transformed and compared only
\* when the stored method is S256
PkceOk(authData, codeVerifier) ==
  authData.codeChallengeMethod = "S256" => S256(codeVerifier) = authData.codeChallenge

\* a token record that names the client in both fields
AccessDataOfClient(userId, clientId) ==
  [userId |-> clientId, clientId |-> clientId, scope |-> "mcp", createdAt |-> now]
AccessData(userId, clientId) ==
  [userId |-> userId, clientId |-> clientId, scope |-> "mcp", createdAt |-> now]
RefreshData(userId, clientId) ==
  [userId |-> userId, clientId |-> clientId, createdAt |-> now]
GenerateAccessTokenOneKey(store, token, userId, clientId) ==
  KVPut(store, AccessKey(1), AccessData(userId, clientId), AccessTtl)
GenerateAccessToken(store, token, userId, clientId) ==
  KVPut(store, AccessKey(token), AccessData(userId, clientId), AccessTtl)
GenerateRefreshToken(store, token, userId, clientId) ==
  KVPut(store, RefreshKey(token), RefreshData(userId, clientId), RefreshTtl)
ValidateAccessToken(token) ==
  LET data == KVGet(AccessKey(token))
  IN IF data = Null THEN Null ELSE [userId |-> data.userId]
ValidateRefreshToken(token) ==
  LET data == KVGet(RefreshKey(token))
  IN IF data = Null THEN Null ELSE [userId |-> data.userId, clientId |-> data.clientId]
ValidateAuthorizationCodeNoDelete(store, code) == store
\* validateAuthorizationCode's delete of the code it has accepted
ValidateAuthorizationCodeDelete(store, code) == KVDelete(store, CodeKey(code))

Minted(m, k, grant, from, data) ==
  m \cup {[key |-> k, grant |-> grant, from |-> from, userId |-> data.userId,
           clientId |-> data.clientId, at |-> now]}

RefreshGrantRotating(store, accessToken, refreshToken, result) ==
  KVDelete(GenerateAccessToken(store, accessToken, result.userId, result.clientId),
           RefreshKey(refreshToken))
\* the store calls of the refresh_token grant once the refresh token validated
RefreshGrantStore(store, accessToken, refreshToken, result) ==
  GenerateAccessToken(store, accessToken, result.userId, result.clientId)

MissingCodeFieldsNoVerifier(body) == body.code = NoId \/ body.redirect_uri = None
\* `!body.code || !body.redirect_uri || !body.code_verifier`
MissingCodeFields(body) ==
  body.code = NoId \/ body.redirect_uri = None \/ body.code_verifier = None

\* what the token endpoint answers when validateAuthorizationCode returned
\* null: one error, whatever made the validation fail
GrantErrorByCause(data, body) ==
  IF data = Null THEN "invalid_grant"
  ELSE IF ~RedirectOk(data, body.redirect_uri) THEN "redirect_uri_mismatch"
  ELSE "invalid_code_verifier"
GrantError(data, body) == "invalid_grant"

TokenReqs ==
  [grant_type : {"authorization_code", "refresh_token", "password"},
   code : {NoId} \cup Ids, redirect_uri : {None} \cup RedirectUris,
   code_verifier : {None} \cup Verifiers, refresh_token : {NoId} \cup Ids]

\* the token endpoint up to and including its first store call; the
\* refresh_token grant and every failure end here
OAuthTokenBegin(p, body) ==
  /\ proc[p].pc = "idle"
  /\ LET base == [NoResp EXCEPT !.handler = "/oauth/token", !.req = body]
     IN CASE body.grant_type = "authorization_code" ->
               LET k == CodeKey(body.code)
                   data == KVGet(k)
               IN IF MissingCodeFields(body)
                  THEN /\ last' = [base EXCEPT !.status = 400, !.error = "invalid_request"]
                       /\ UNCHANGED <<kv, nextId, proc, raced, minted>>
                  ELSE IF data = Null
                          \/ ~RedirectOk(data, body.redirect_uri)
                          \/ ~PkceOk(data, body.code_verifier)
                  THEN /\ last' = [base EXCEPT !.status = 400,
                                     !.error = GrantError(data, body),
                                     !.seen = data, !.reads = {k},
                                     !.after = (k \in consumed)]
                       /\ UNCHANGED <<kv, nextId, proc, raced, minted>>
                  ELSE /\ proc' = [proc EXCEPT ![p] =
                                     [pc |-> "token", key |-> k, req |-> body,
                                      seen |-> data, after |-> (k \in consumed),
                                      viaFlow |-> FALSE]]
                       /\ raced' = RacedAfterRead(p, k, TRUE)
                       /\ UNCHANGED <<kv, nextId, last, minted>>
          [] body.grant_type = "refresh_token" ->
               LET k == RefreshKey(body.refresh_token)
                   result == ValidateRefreshToken(body.refresh_token)
                   accessToken == RandomUUID("oauth:access")
                   kv2 == RefreshGrantStore(kv, accessToken, body.refresh_token, result)
               IN IF body.refresh_token = NoId
                  THEN /\ last' = [base EXCEPT !.status = 400, !.error = "invalid_request"]
                       /\ UNCHANGED <<kv, nextId, proc, raced, minted>>
                  ELSE IF result = Null
                  THEN /\ last' = [base EXCEPT !.status = 400, !.error = "invalid_grant",
                                     !.reads = {k}]
                       /\ UNCHANGED <<kv, nextId, proc, raced, minted>>
                  ELSE /\ HasFresh("oauth:access")
                       /\ kv' = kv2
                       /\ nextId' = Bump("oauth:access")
                       /\ minted' = Minted(minted, AccessKey(accessToken),
                                           "refresh_token", body.refresh_token, result)
                       /\ last' = [base EXCEPT !.status = 200, !.access = accessToken,
                                     !.seen = KVGet(k), !.reads = {k},
                                     !.result = [ok |-> TRUE, userId |-> result.userId,
                                                 clientId |-> result.clientId],
                                     !.written = Written(kv, kv2),
                                     !.deleted = Deleted(kv, kv2)]
                       /\ UNCHANGED <<proc, raced>>
          [] OTHER ->
               /\ last' = [base EXCEPT !.status = 400, !.error = "unsupported_grant_type"]
               /\ UNCHANGED <<kv, nextId, proc, raced, minted>>
  /\ UNCHANGED <<now, ticks, consumed, twice, sessUser, codeVia, flow>>

\* the authorization_code grant after its code was accepted: the delete of
\* the code, generateAccessToken, generateRefreshToken
OAuthTokenEnd(p) ==
  /\ proc[p].pc = "token"
  /\ HasFresh("oauth:access") /\ HasFresh("oauth:refresh")
  /\ LET body == proc[p].req
         authData == proc[p].seen
         accessToken == RandomUUID("oauth:access")
         refreshToken == RandomUUID("oauth:refresh")
         kv1 == ValidateAuthorizationCodeDelete(kv, body.code)
         kv2 == GenerateAccessToken(kv1, accessToken, authData.userId, authData.clientId)
         kv3 == GenerateRefreshToken(kv2, refreshToken, authData.userId,
                                     authData.clientId)
     IN /\ kv' = kv3
        /\ nextId' = Bump2("oauth:access", "oauth:refresh")
        /\ minted' = Minted(Minted(minted, AccessKey(accessToken), "authorization_code",
                                   body.code, authData),
                            RefreshKey(refreshToken), "authorization_code", body.code,
                            authData)
        /\ last' = [NoResp EXCEPT !.handler = "/oauth/token", !.req = body,
                      !.status = 200, !.access = accessToken, !.refresh = refreshToken,
                      !.seen = authData, !.after = proc[p].after,
                      !.result = [ok |-> TRUE, userId |-> authData.userId,
                                  clientId |-> authData.clientId],
                      !.reads = {proc[p].key},
                      !.written = Written(kv, kv3), !.deleted = Deleted(kv, kv3)]
  /\ consumed' = ConsumedAfter(proc[p].key)
  /\ twice' = TwiceAfter(proc[p].key)
  /\ proc' = [proc EXCEPT ![p] = Idle]
  /\ UNCHANGED <<now, ticks, raced, sessUser, codeVia, flow>>

\* ---- ALL /mcp -----------------------------------------------------------------
NoHeader == [scheme |-> None, token |-> NoId]
AuthHeaders == {NoHeader} \cup [scheme : {"Bearer", "Basic"}, token : {NoId} \cup AccessIds]

\* how the /mcp endpoint resolves the caller: "token", "session" or a refusal
McpAuthFallThrough(authHeader, cookie) ==
  IF authHeader.scheme = "Bearer" /\ ValidateAccessToken(authHeader.token) # Null
  THEN "token"
  ELSE IF cookie # NoId /\ SessionOk(GetSession(cookie)) THEN "session"
  ELSE IF authHeader.scheme = "Bearer" THEN "401" ELSE "login"
McpAuth(authHeader, cookie) ==
  IF authHeader.scheme = "Bearer"
  THEN IF ValidateAccessToken(authHeader.token) = Null THEN "401" ELSE "token"
  ELSE IF cookie # NoId /\ SessionOk(GetSession(cookie)) THEN "session" ELSE "login"

McpEndpoint(authHeader, cookie) ==
  /\ LET how == McpAuth(authHeader, cookie)
         base == [NoResp EXCEPT !.handler = "/mcp",
                    !.req = [authorization |-> authHeader], !.cookie = cookie,
                    !.seen = KVGet(AccessKey(authHeader.token)),
                    !.sess = KVGet(Key("session", cookie)),
                    !.reads = IF authHeader.scheme = "Bearer"
                              THEN {AccessKey(authHeader.token)}
                              ELSE IF cookie # NoId THEN {Key("session", cookie)} ELSE {}]
     IN last' =
          CASE how = "401" ->
                 [base EXCEPT !.status = 401, !.error = "invalid_token", !.wwwAuth = TRUE]
            [] how = "login" ->
                 [base EXCEPT !.status = 302, !.location = [path |-> "/auth/login"]]
            [] how = "token" ->
                 [base EXCEPT !.status = 200, !.mcp = TRUE,
                    !.result = [NoResult EXCEPT !.ok = TRUE,
                                  !.userId = ValidateAccessToken(authHeader.token).userId]]
            [] OTHER ->
                 [base EXCEPT !.status = 200, !.mcp = TRUE,
                    !.result = [NoResult EXCEPT !.ok = TRUE,
                                  !.userId = GetSession(cookie).userId]]
  /\ UNCHANGED <<now, ticks, kv, nextId, proc, consumed, twice, raced, minted, sessUser,
                 codeVia, flow>>

\* ---- GET /dashboard ------------------------------------------------------------
\* a route behind requireAuth; with a session it looks up the user's Monarch token
Dashboard(cookie) ==
  /\ LET session == RequireAuth(cookie)
         base == [NoResp EXCEPT !.handler = "/dashboard", !.cookie = cookie,
                    !.sess = IF cookie # NoId THEN GetSession(cookie) ELSE Null]
     IN last' =
          IF session = Null
          THEN [base EXCEPT !.status = 302, !.location = [path |-> "/auth/login"],
                  !.reads = IF cookie # NoId THEN {Key("session", cookie)} ELSE {}]
          ELSE [base EXCEPT !.status = 200,
                  !.result = [NoResult EXCEPT !.ok = TRUE, !.userId = session.userId],
                  !.reads = {Key("session", cookie), Key("monarch:token", session.userId)}]
  /\ UNCHANGED <<now, ticks, kv, nextId, proc, consumed, twice, raced, minted, sessUser,
                 codeVia, flow>>

\* ---- SessionManager.validateSessionFromCookie --------------------------------
\* getThrows: the store read fails; the catch logs the error and returns null
ValidateSessionFromCookie(cookieValue, getThrows) ==
  /\ getThrows => cookieValue # NoId      \* without a cookie there is no read
  /\ last' = [NoResp EXCEPT !.handler = "validateSessionFromCookie",
                !.req = [getThrows |-> getThrows],
                !.cookie = cookieValue,
                !.status = 200,
                !.sess = IF cookieValue = NoId \/ getThrows THEN Null
                         ELSE GetSession(cookieValue),
                !.reads = IF cookieValue = NoId THEN {}
                          ELSE {Key("session", cookieValue)}]
  /\ UNCHANGED <<now, ticks, kv, nextId, proc, consumed, twice, raced, minted, sessUser,
                 codeVia, flow>>

\* ---- GET /auth/logout -----------------------------------------------------------
AuthLogout(cookie) ==
  /\ LET kv2 == IF cookie # NoId THEN DeleteSession(kv, cookie) ELSE kv
     IN /\ kv' = kv2
        /\ last' = [NoResp EXCEPT !.handler = "/auth/logout", !.cookie = cookie,
                      !.status = 302, !.location = [path |-> "/"],
                      !.written = Written(kv, kv2), !.deleted = Deleted(kv, kv2)]
  /\ UNCHANGED <<now, ticks, nextId, proc, consumed, twice, raced, minted, sessUser,
                 codeVia, flow>>

\* ---- MagicLinkManager (auth-flow.ts) ----------------------------------------------
MagicKey(code) == Key("magic", code)
MagicData(userId) == [userId |-> userId, createdAt |-> now]

\* generateMagicLink: the record is written before the base URL is looked at;
\* code is the value generateRandomCode drew
GenerateMagicLink(userId, hasOrigin, code) ==
  /\ LET k == MagicKey(code)
         kv2 == KVPut(kv, k, MagicData(userId), MagicTtl)
     IN /\ kv' = kv2
        /\ last' = [NoResp EXCEPT !.handler = "generateMagicLink",
                      !.req = [userId |-> userId, hasOrigin |-> hasOrigin],
                      !.status = IF hasOrigin THEN 200 ELSE 500,
                      !.error = IF hasOrigin THEN None ELSE "no_base_url",
                      !.location = IF hasOrigin
                                   THEN [path |-> "/auth/magic", code |-> code]
                                   ELSE NoLoc,
                      !.seen = KVGet(k),   \* the link this code stood for until now
                      !.written = Written(kv, kv2)]
        /\ consumed' = consumed \ {k}
        /\ twice' = twice \ {k}
        /\ raced' = IF \E q \in Procs : Holding(q, k) THEN raced ELSE raced \ {k}
  /\ UNCHANGED <<now, ticks, nextId, proc, minted, sessUser, codeVia, flow>>

ValidateMagicLinkNoDelete(store, code) == store
ValidateMagicLinkDelete(store, code) == KVDelete(store, MagicKey(code))

\* validateMagicLink up to its get
ValidateMagicLinkBegin(p, code) ==
  /\ proc[p].pc = "idle"
  /\ LET k == MagicKey(code)
         data == KVGet(k)
     IN IF data = Null
        THEN /\ last' = [NoResp EXCEPT !.handler = "validateMagicLink",
                           !.req = [code |-> code], !.reads = {k},
                           !.after = (k \in consumed)]
             /\ UNCHANGED <<proc, raced>>
        ELSE /\ proc' = [proc EXCEPT ![p] =
                           [pc |-> "magic", key |-> k, req |-> [code |-> code],
                            seen |-> data, after |-> (k \in consumed),
                            viaFlow |-> FALSE]]
             /\ raced' = RacedAfterRead(p, k, TRUE)
             /\ UNCHANGED last
  /\ UNCHANGED <<now, ticks, kv, nextId, consumed, twice, minted, sessUser, codeVia, flow>>

\* validateMagicLink's delete and return
ValidateMagicLinkEnd(p) ==
  /\ proc[p].pc = "magic"
  /\ LET kv2 == ValidateMagicLinkDelete(kv, proc[p].req.code)
     IN /\ kv' = kv2
        /\ last' = [NoResp EXCEPT !.handler = "validateMagicLink", !.req = proc[p].req,
                      !.seen = proc[p].seen, !.after = proc[p].after,
                      !.result = [NoResult EXCEPT !.ok = TRUE,
                                    !.userId = proc[p].seen.userId],
                      !.reads = {proc[p].key},
                      !.written = Written(kv, kv2), !.deleted = Deleted(kv, kv2)]
  /\ consumed' = ConsumedAfter(proc[p].key)
  /\ twice' = TwiceAfter(proc[p].key)
  /\ proc' = [proc EXCEPT ![p] = Idle]
  /\ UNCHANGED <<now, ticks, nextId, raced, minted, sessUser, codeVia, flow>>

\* ---- generateRandomCode (auth-flow.ts) --------------------------------------------
\* const chars = 'ABCDEFGHJKLMNPQRSTUVWXYZ23456789'
Chars ==
  <<"A", "B", "C", "D", "E", "F", "G", "H", "J", "K", "L", "M", "N", "P", "Q", "R",
    "S", "T", "U", "V", "W", "X", "Y", "Z", "2", "3", "4", "5", "6", "7", "8", "9">>
CodeLength == 8
ByteValues == 0..255                 \* an element of a Uint8Array
\* chars[i]: undefined past the end, which += appends as the text 'undefined'
CharAt(chars, i) == IF i < Len(chars) THEN chars[i + 1] ELSE "undefined"
\* the loop without the remainder
RandomCodeNoRemainder(length, randomValues) ==
  [i \in 1..length |-> CharAt(Chars, randomValues[i])]
\* the loop of generateRandomCode over the values crypto.getRandomValues drew
RandomCode(length, randomValues) ==
  [i \in 1..length |-> CharAt(Chars, randomValues[i] % Len(Chars))]
\* the random arrays tried: every value at every position, eight different
\* values in each array
RandomArrays == {[j \in 1..CodeLength |-> (b + 37 * j) % 256] : b \in ByteValues}

\* this.generateRandomCode(8)
GenerateRandomCode(randomValues) ==
  /\ last' = [NoResp EXCEPT !.handler = "generateRandomCode",
                !.req = [length |-> CodeLength, randomValues |-> randomValues],
                !.result = [code |-> RandomCode(CodeLength, randomValues)]]
  /\ UNCHANGED <<now, ticks, kv, nextId, proc, consumed, twice, raced, minted, sessUser,
                 codeVia, flow>>

\* ---- GET /auth/magic/:code ------------------------------------------------------
\* what this.env.OAUTH_KV is inside the MagicLinkManager the handler builds:
\* the constructor takes the environment and the handler passes it
\* c.env.OAUTH_KV, a KV namespace, which has no property OAUTH_KV
MagicHandlerStore == Null

\* validateMagicLink calls get on MagicHandlerStore; on undefined that throws,
\* and the handler's catch answers 500 before any store call
AuthMagic(code) ==
  /\ LET k == MagicKey(code)
         data == KVGet(k)
         sessionId == RandomUUID("session")
         base == [NoResp EXCEPT !.handler = "/auth/magic",
                    !.req = [code |-> code, at |-> now],
                    !.seen = data]       \* the record the link names
     IN IF MagicHandlerStore = Null
        THEN /\ last' = [base EXCEPT !.status = 500, !.error = "magic_link_error"]
             /\ UNCHANGED <<kv, nextId, sessUser>>
        ELSE IF data = Null
        THEN /\ last' = [base EXCEPT !.status = 410, !.reads = {k}]
             /\ UNCHANGED <<kv, nextId, sessUser>>
        ELSE LET kv2 == CreateSession(ValidateMagicLinkDelete(kv, code), sessionId,
                                      data.userId)
             IN /\ HasFresh("session")
                /\ kv' = kv2
                /\ nextId' = Bump("session")
                /\ sessUser' = [x \in (DOMAIN sessUser) \cup {sessionId} |->
                                  IF x = sessionId THEN data.userId ELSE sessUser[x]]
                /\ last' = [base EXCEPT !.status = 302, !.cookie = sessionId,
                              !.location = [path |-> "/auth/refresh"],
                              !.reads = {k}, !.written = Written(kv, kv2),
                              !.deleted = Deleted(kv, kv2)]
  /\ UNCHANGED <<now, ticks, proc, consumed, twice, raced, minted, codeVia, flow>>

\* ---- AuthHealthManager (auth-flow.ts) -----------------------------------------
TokenKey(userId) == Key("monarch:token", userId)
TokenMetaKey(userId) == Key("monarch:token:meta", userId)
MonarchTokens == {"t1", "t2"}

\* storeTokenWithMetadata up to its first put: expiresAt is computed here
StoreTokenWithMetadataBegin(p, userId, token, expiryDays) ==
  /\ proc[p].pc = "idle"
  /\ proc' = [proc EXCEPT ![p] =
                [pc |-> "storeToken", key |-> TokenKey(userId),
                 req |-> [userId |-> userId, token |-> token, expiryDays |-> expiryDays],
                 seen |-> [expiresAt |-> now + expiryDays * Day],
                 after |-> FALSE, viaFlow |-> FALSE]]
  /\ UNCHANGED <<now, ticks, kv, nextId, last, consumed, twice, raced, minted, sessUser,
                 codeVia, flow>>

\* MonarchTokenManager.storeToken
StoreToken(p) ==
  /\ proc[p].pc = "storeToken"
  /\ kv' = KVPut(kv, TokenKey(proc[p].req.userId), [token |-> proc[p].req.token], TokenTtl)
  /\ proc' = [proc EXCEPT ![p].pc = "storeMeta"]
  /\ UNCHANGED <<now, ticks, nextId, last, consumed, twice, raced, minted, sessUser,
                 codeVia, flow>>

\* the put of the metadata record, and the return; putThrows: the store
\* write fails and the error leaves storeTokenWithMetadata
StoreTokenWithMetadataEnd(p, putThrows) ==
  /\ proc[p].pc = "storeMeta"
  /\ LET req == proc[p].req
         k == TokenMetaKey(req.userId)
         kv2 == IF putThrows THEN kv
                ELSE KVPut(kv, k, [createdAt |-> now,
                                   expiresAt |-> proc[p].seen.expiresAt,
                                   userId |-> req.userId], req.expiryDays * Day)
     IN /\ kv' = kv2
        /\ last' = [NoResp EXCEPT !.handler = "storeTokenWithMetadata", !.req = req,
                      !.status = IF putThrows THEN 500 ELSE 200,
                      !.error = IF putThrows THEN "thrown" ELSE None,
                      !.seen = proc[p].seen,
                      !.written = Written(kv, kv2)]
  /\ proc' = [proc EXCEPT ![p] = Idle]
  /\ UNCHANGED <<now, ticks, nextId, consumed, twice, raced, minted, sessUser, codeVia,
                 flow>>

HealthStatusByPresence(token, tokenMeta, t) ==
  [authenticated |-> TRUE, hasMonarchToken |-> token # Null,
   needsAction |-> token = Null,
   actionRequired |-> IF token = Null THEN "initial_setup" ELSE None]
HealthStatusInverted(token, tokenMeta, t) ==
  LET hasValidToken == token # Null /\ tokenMeta # Null /\ tokenMeta.expiresAt < t
      needsAction == token = Null \/ ~hasValidToken
  IN [authenticated |-> TRUE,
      hasMonarchToken |-> token # Null /\ hasValidToken,
      needsAction |-> needsAction,
      actionRequired |-> IF ~needsAction THEN None
                         ELSE IF token = Null THEN "initial_setup"
                         ELSE "token_expired"]
\* the AuthStatus checkAuthHealth computes from the two records it read, at
\* time t
HealthStatus(token, tokenMeta, t) ==
  LET hasValidToken == token # Null /\ tokenMeta # Null /\ tokenMeta.expiresAt > t
      needsAction == token = Null \/ ~hasValidToken
  IN [authenticated |-> TRUE,
      hasMonarchToken |-> token # Null /\ hasValidToken,
      needsAction |-> needsAction,
      actionRequired |-> IF ~needsAction THEN None
                         ELSE IF token = Null THEN "initial_setup"
                         ELSE "token_expired"]

BaseUrls == {None, "https://w"}      \* the baseUrl argument, the PUBLIC_BASE_URL setting
NoUrl == [origin |-> None, path |-> None]
\* `origin = baseUrl || this.env.PUBLIC_BASE_URL`, and the URL built from it
SetupUrl(needsAction, baseUrl, publicBaseUrl) ==
  LET origin == IF baseUrl # None THEN baseUrl ELSE publicBaseUrl
  IN IF needsAction /\ origin # None
     THEN [origin |-> origin, path |-> "/auth/refresh"]
     ELSE NoUrl

\* checkAuthHealth up to getToken; publicBaseUrl is the deployment's
\* PUBLIC_BASE_URL.  getTokenThrows: the store read fails; the catch around
\* it logs the error and leaves token null
CheckAuthHealthBegin(p, userId, baseUrl, publicBaseUrl, getTokenThrows) ==
  /\ proc[p].pc = "idle"
  /\ proc' = [proc EXCEPT ![p] =
                [pc |-> "health", key |-> TokenMetaKey(userId),
                 req |-> [userId |-> userId, baseUrl |-> baseUrl,
                          publicBaseUrl |-> publicBaseUrl,
                          getTokenThrows |-> getTokenThrows],
                 seen |-> [token |-> IF getTokenThrows THEN Null
                                     ELSE KVGet(TokenKey(userId))],
                 after |-> FALSE, viaFlow |-> FALSE]]
  /\ UNCHANGED <<now, ticks, kv, nextId, last, consumed, twice, raced, minted, sessUser,
                 codeVia, flow>>

\* the get of the metadata record and the decision; getThrows: the store
\* read fails, and nothing catches it
CheckAuthHealthEnd(p, getThrows) ==
  /\ proc[p].pc = "health"
  /\ LET userId == proc[p].req.userId
         token == proc[p].seen.token
         tokenMeta == KVGet(TokenMetaKey(userId))
         status == HealthStatus(token, tokenMeta, now)
         base == [NoResp EXCEPT !.handler = "checkAuthHealth",
                    !.req = [userId |-> userId, at |-> now,
                             baseUrl |-> proc[p].req.baseUrl,
                             publicBaseUrl |-> proc[p].req.publicBaseUrl,
                             getTokenThrows |-> proc[p].req.getTokenThrows,
                             getThrows |-> getThrows],
                    !.reads = {TokenKey(userId), TokenMetaKey(userId)}]
     IN last' = IF getThrows
                THEN [base EXCEPT !.status = 500, !.error = "thrown",
                        !.seen = [token |-> token, tokenMeta |-> Null]]
                ELSE [base EXCEPT !.status = 200,
                        !.seen = [token |-> token, tokenMeta |-> tokenMeta],
                        !.result = status @@
                                   [setupUrl |-> SetupUrl(status.needsAction,
                                                          proc[p].req.baseUrl,
                                                          proc[p].req.publicBaseUrl)]]
  /\ proc' = [proc EXCEPT ![p] = Idle]
  /\ UNCHANGED <<now, ticks, kv, nextId, consumed, twice, raced, minted, sessUser,
                 codeVia, flow>>

Floor(a, b) == a \div b
\* Math.ceil(a / b) for b > 0
Ceil(a, b) == -((-a) \div b)
DaysUntilExpiryReversed(expiresAt, t) == Ceil(t - expiresAt, Day)
DaysUntilExpiryFloor(expiresAt, t) == Floor(expiresAt - t, Day)
\* diffDays of getDaysUntilExpiry; the clock counts seconds here and
\* milliseconds in the code
DaysUntilExpiry(expiresAt, t) == Ceil(expiresAt - t, Day)
NoDays == [isNull |-> TRUE, days |-> 0]
\* what getDaysUntilExpiry returns for the record it read at time t
DaysResult(tokenMeta, t) ==
  IF tokenMeta = Null THEN NoDays
  ELSE [isNull |-> FALSE, days |-> DaysUntilExpiry(tokenMeta.expiresAt, t)]
NoCall == [called |-> FALSE]
\* history: the call of getDaysUntilExpiry for the same user that completed
\* just before this one, when no other exchange completed in between
PreviousCall(userId) ==
  IF last.handler = "getDaysUntilExpiry" /\ last.req.userId = userId
  THEN [called |-> TRUE, at |-> last.req.at, tokenMeta |-> last.seen.tokenMeta,
        result |-> last.result]
  ELSE NoCall

\* getDaysUntilExpiry: one get, then arithmetic
GetDaysUntilExpiry(userId) ==
  /\ LET tokenMeta == KVGet(TokenMetaKey(userId))
     IN last' = [NoResp EXCEPT !.handler = "getDaysUntilExpiry",
                   !.req = [userId |-> userId, at |-> now],
                   !.status = 200,
                   !.seen = [tokenMeta |-> tokenMeta, prev |-> PreviousCall(userId)],
                   !.result = DaysResult(tokenMeta, now),
                   !.reads = {TokenMetaKey(userId)}]
  /\ UNCHANGED <<now, ticks, kv, nextId, proc, consumed, twice, raced, minted, sessUser,
                 codeVia, flow>>

\* ---- the credential cipher (crypto.ts) --------------------------------------------
\* A string is [units |-> a sequence of UTF-16 code units, pad |-> n]: the
\* units followed by n times the letter A.  The code units are a letter, a
\* two-byte character, the two halves of a surrogate pair, and U+FFFD.
CodeUnits == {"a", "e9", "D83D", "DD10", "FFFD"}
Pads == {0, 10000, 1000000}
\* the secrets are strings too: a letter, a letter followed by U+0000, a
\* two-byte character, a surrogate half on its own, and U+FFFD
Secrets == {<<"a">>, <<"a", "0000">>, <<"e9">>, <<"D83D">>, <<"FFFD">>}
Ivs == {"iv1", "iv2"}                \* crypto.getRandomValues(new Uint8Array(12))
ArgumentsSafe == 65535   \* arguments a call takes in every engine; past it, a spread may throw RangeError
Thrown(message) == [thrown |-> message]

\* TextEncoder.encode: the scalar values of the string; a surrogate half with
\* no partner becomes U+FFFD
RECURSIVE Utf8Encode(_)
Utf8Encode(units) ==
  IF units = <<>> THEN <<>>
  ELSE IF Len(units) >= 2 /\ units[1] = "D83D" /\ units[2] = "DD10"
  THEN <<"1F510">> \o Utf8Encode(SubSeq(units, 3, Len(units)))
  ELSE IF units[1] \in {"D83D", "DD10"} THEN <<"FFFD">> \o Utf8Encode(Tail(units))
  ELSE <<units[1]>> \o Utf8Encode(Tail(units))
\* TextDecoder.decode
RECURSIVE Utf8Decode(_)
Utf8Decode(scalars) ==
  IF scalars = <<>> THEN <<>>
  ELSE IF scalars[1] = "1F510" THEN <<"D83D", "DD10">> \o Utf8Decode(Tail(scalars))
  ELSE <<scalars[1]>> \o Utf8Decode(Tail(scalars))
\* the bytes of the encoded scalars
RECURSIVE ByteLength(_)
ByteLength(scalars) ==
  IF scalars = <<>> THEN 0
  ELSE ByteLength(Tail(scalars)) +
       (CASE scalars[1] \in {"a", "0000"} -> 1 [] scalars[1] = "e9" -> 2
          [] scalars[1] = "1F510" -> 4 [] OTHER -> 3)
\* the key PBKDF2 feeds to HMAC-SHA-256: shorter than the 64-byte block, it is
\* padded with zero bytes on the right, so zero bytes at its end do not count
RECURSIVE HmacKey(_)
HmacKey(secretData) ==
  IF secretData # <<>> /\ secretData[Len(secretData)] = "0000"
  THEN HmacKey(SubSeq(secretData, 1, Len(secretData) - 1))
  ELSE secretData
\* PBKDF2 with the fixed salt over the encoded secret
DeriveKey(secret) == [salt |-> "monarch-mcp-salt-v1", secret |-> HmacKey(Utf8Encode(secret))]

\* encryptString: the 12 bytes of the IV, the ciphertext and its 16-byte tag
\* are passed to String.fromCharCode as that many arguments; spreadThrows is
\* whether the engine refuses the call
EncryptString(secret, plaintext, iv, spreadThrows) ==
  LET data == Utf8Encode(plaintext.units)
  IN IF spreadThrows THEN Thrown("Failed to encrypt data")
     ELSE [iv |-> iv, key |-> DeriveKey(secret), data |-> data, pad |-> plaintext.pad]
CombinedLength(plaintext) == 12 + ByteLength(Utf8Encode(plaintext.units)) + plaintext.pad + 16
\* decryptString: AES-GCM rejects a ciphertext made under another key
DecryptString(secret, ciphertext) ==
  IF DeriveKey(secret) # ciphertext.key THEN Thrown("Failed to decrypt data")
  ELSE [v |-> [units |-> Utf8Decode(ciphertext.data), pad |-> ciphertext.pad]]

RECURSIVE SeqsUpTo(_, _)
SeqsUpTo(S, n) ==
  IF n = 0 THEN {<<>>}
  ELSE SeqsUpTo(S, n - 1) \cup {Append(s, x) : s \in SeqsUpTo(S, n - 1), x \in S}
\* the strings given to the cipher: empty, short, long, very long, non-ASCII
Plaintexts == [units : SeqsUpTo(CodeUnits, MaxUnits), pad : Pads]

\* decryptString(secret, await encryptString(secret, plaintext))
RoundTrip(secret, plaintext, iv, spreadThrows) ==
  /\ spreadThrows => CombinedLength(plaintext) > ArgumentsSafe
  /\ LET encrypted == EncryptString(secret, plaintext, iv, spreadThrows)
     IN last' = [NoResp EXCEPT !.handler = "decryptString(encryptString)",
                   !.req = [secret |-> secret, plaintext |-> plaintext],
                   !.seen = encrypted,
                   !.result = IF spreadThrows THEN encrypted
                              ELSE DecryptString(secret, encrypted)]
  /\ UNCHANGED <<now, ticks, kv, nextId, proc, consumed, twice, raced, minted, sessUser,
                 codeVia, flow>>

\* decryptString(secret2, await encryptString(secret1, plaintext))
WrongSecret(secret1, secret2, plaintext, iv, spreadThrows) ==
  /\ spreadThrows => CombinedLength(plaintext) > ArgumentsSafe
  /\ LET encrypted == EncryptString(secret1, plaintext, iv, spreadThrows)
     IN last' = [NoResp EXCEPT !.handler = "decryptString(encryptString other)",
                   !.req = [secret1 |-> secret1, secret2 |-> secret2,
                            plaintext |-> plaintext],
                   !.seen = encrypted,
                   !.result = IF spreadThrows THEN encrypted
                              ELSE DecryptString(secret2, encrypted)]
  /\ UNCHANGED <<now, ticks, kv, nextId, proc, consumed, twice, raced, minted, sessUser,
                 codeVia, flow>>

\* ---- client registration (auth.ts) -------------------------------------------------
\* a property of a JSON object is a value [v |-> x] or undefined
Undefined == [undefined |-> TRUE]
Field(object, f) == IF f \in DOMAIN object THEN object[f] ELSE Undefined
\* JSON.stringify then JSON.parse: properties whose value is undefined are
\* left out of the text
JsonRoundTrip(object) ==
  [f \in {g \in DOMAIN object : object[g] # Undefined} |-> object[f]]
\* `a || b` for a property that is undefined or an array or a non-empty string
OrElse(a, b) == IF a = Undefined THEN b ELSE a
ClientKey(clientId) == Key("oauth:client", clientId)
RegistrationRequests ==
  [client_name : {Undefined, [v |-> "app"]},
   client_uri : {Undefined},
   redirect_uris : {[v |-> <<"r1">>]},
   grant_types : {Undefined, [v |-> <<"authorization_code">>], [v |-> <<>>]},
   response_types : {Undefined, [v |-> <<"token">>]},
   scope : {Undefined},
   token_endpoint_auth_method : {Undefined, [v |-> "client_secret_basic"]}]

ClientDataDefaultsOnly(request, clientId, issuedAt) ==
  [client_id |-> [v |-> clientId],
   client_id_issued_at |-> [v |-> issuedAt],
   client_name |-> request.client_name,
   client_uri |-> request.client_uri,
   redirect_uris |-> request.redirect_uris,
   grant_types |-> [v |-> <<"authorization_code", "refresh_token">>],
   response_types |-> [v |-> <<"code">>],
   scope |-> [v |-> "mcp"],
   token_endpoint_auth_method |-> [v |-> "none"]]
\* clientData, which is also the response
ClientData(request, clientId, issuedAt) ==
  [client_id |-> [v |-> clientId],
   client_id_issued_at |-> [v |-> issuedAt],
   client_name |-> request.client_name,
   client_uri |-> request.client_uri,
   redirect_uris |-> request.redirect_uris,
   grant_types |-> OrElse(request.grant_types,
                          [v |-> <<"authorization_code", "refresh_token">>]),
   response_types |-> OrElse(request.response_types, [v |-> <<"code">>]),
   scope |-> OrElse(request.scope, [v |-> "mcp"]),
   token_endpoint_auth_method |-> OrElse(request.token_endpoint_auth_method,
                                         [v |-> "none"])]

\* getClient: the parsed record, or null
GetClient(clientId) == KVGet(ClientKey(clientId))

RegisterClient(request) ==
  /\ HasFresh("oauth:client")
  /\ LET clientId == RandomUUID("oauth:client")
         clientData == ClientData(request, clientId, now)
         kv2 == KVPut(kv, ClientKey(clientId), JsonRoundTrip(clientData), ClientTtl)
     IN /\ kv' = kv2
        /\ nextId' = Bump("oauth:client")
        /\ last' = [NoResp EXCEPT !.handler = "registerClient", !.req = request,
                      !.status = 200,
                      !.seen = GetClient(clientId),  \* a client of that id until now
                      !.result = clientData,
                      !.written = Written(kv, kv2)]
  /\ UNCHANGED <<now, ticks, proc, consumed, twice, raced, minted, sessUser, codeVia,
                 flow>>

\* ---- status reporting (auth-flow.ts, token-refresh.ts, mcp-server.ts) ----------
RefreshThresholdDays == 7     \* token-refresh.ts needsRefresh default, and the tool's argument
\* the line generateStatusReport writes about the days left
ReportBand(status, daysUntilExpiry) ==
  IF ~status.hasMonarchToken THEN "not_configured"
  ELSE IF daysUntilExpiry.isNull THEN "active"
  ELSE IF daysUntilExpiry.days > 30 THEN "expires_in"
  ELSE IF daysUntilExpiry.days > 7 THEN "consider_refreshing_soon"
  ELSE "refresh_recommended"
\* TokenRefreshManager.needsRefresh, from the days getDaysUntilExpiry returned
NeedsRefresh(daysUntilExpiry, refreshThresholdDays) ==
  IF daysUntilExpiry.isNull THEN [needsRefresh |-> TRUE, reason |-> "no_token_found"]
  ELSE IF daysUntilExpiry.days <= 0
  THEN [needsRefresh |-> TRUE, reason |-> "token_has_expired"]
  ELSE IF daysUntilExpiry.days <= refreshThresholdDays
  THEN [needsRefresh |-> TRUE, reason |-> "token_expires_in_days"]
  ELSE [needsRefresh |-> FALSE, reason |-> None]

\* the check_auth_status tool: checkAuthHealth's getToken
CheckAuthStatusBegin(p, userId) ==
  /\ proc[p].pc = "idle"
  /\ proc' = [proc EXCEPT ![p] =
                [pc |-> "statusHealth", key |-> TokenMetaKey(userId),
                 req |-> [userId |-> userId],
                 seen |-> [token |-> KVGet(TokenKey(userId))],
                 after |-> FALSE, viaFlow |-> FALSE]]
  /\ UNCHANGED <<now, ticks, kv, nextId, last, consumed, twice, raced, minted, sessUser,
                 codeVia, flow>>

\* the rest of checkAuthHealth
CheckAuthStatusHealth(p) ==
  /\ proc[p].pc = "statusHealth"
  /\ LET tokenMeta == KVGet(TokenMetaKey(proc[p].req.userId))
     IN proc' = [proc EXCEPT ![p].pc = "statusDays",
                   ![p].seen = [status |-> HealthStatus(proc[p].seen.token, tokenMeta, now)]]
  /\ UNCHANGED <<now, ticks, kv, nextId, last, consumed, twice, raced, minted, sessUser,
                 codeVia, flow>>

\* the tool's own getDaysUntilExpiry
CheckAuthStatusDays(p) ==
  /\ proc[p].pc = "statusDays"
  /\ LET tokenMeta == KVGet(TokenMetaKey(proc[p].req.userId))
     IN proc' = [proc EXCEPT ![p].pc = "statusRefresh",
                   ![p].seen = [status |-> proc[p].seen.status,
                                daysUntilExpiry |-> DaysResult(tokenMeta, now)]]
  /\ UNCHANGED <<now, ticks, kv, nextId, last, consumed, twice, raced, minted, sessUser,
                 codeVia, flow>>

\* needsRefresh, with its getDaysUntilExpiry, and generateStatusReport
CheckAuthStatusEnd(p) ==
  /\ proc[p].pc = "statusRefresh"
  /\ LET userId == proc[p].req.userId
         refreshDays == DaysResult(KVGet(TokenMetaKey(userId)), now)
     IN last' = [NoResp EXCEPT !.handler = "check_auth_status",
                   !.req = [userId |-> userId, at |-> now],
                   !.status = 200,
                   !.seen = [status |-> proc[p].seen.status,
                             daysUntilExpiry |-> proc[p].seen.daysUntilExpiry,
                             refreshDays |-> refreshDays],
                   !.result = [band |-> ReportBand(proc[p].seen.status,
                                                   proc[p].seen.daysUntilExpiry),
                               refreshStatus |-> NeedsRefresh(refreshDays,
                                                              RefreshThresholdDays)],
                   !.reads = {TokenKey(userId), TokenMetaKey(userId)}]
  /\ proc' = [proc EXCEPT ![p] = Idle]
  /\ UNCHANGED <<now, ticks, kv, nextId, consumed, twice, raced, minted, sessUser,
                 codeVia, flow>>

\* ---- performTokenKeepAlive (token-refresh.ts) ----------------------------------------
KeepAliveThresholdDays == 30
ValidationKey(userId) == Key("token:validation", userId)
ValidationTtl == Day                 \* recordValidation: expirationTtl 60 * 60 * 24
\* what client.getAccounts() does with the stored token; None: it is not called
AccountsOutcomes == {None, "ok", "MonarchAuthError", "Error"}
\* a keep-alive that never takes the token for expired
KeepAliveExpiredNever(daysUntilExpiry) == FALSE
\* refreshStatus.needsRefresh && refreshStatus.daysUntilExpiry !== undefined
\*   && refreshStatus.daysUntilExpiry <= 0
KeepAliveExpired(daysUntilExpiry) ==
  /\ NeedsRefresh(daysUntilExpiry, KeepAliveThresholdDays).needsRefresh
  /\ ~daysUntilExpiry.isNull
  /\ daysUntilExpiry.days <= 0
\* validateToken: the token read, then the test call
ValidateToken(token, outcome) ==
  IF token = Null THEN [valid |-> FALSE, error |-> "No token found"]
  ELSE IF outcome = "ok" THEN [valid |-> TRUE, error |-> None]
  ELSE [valid |-> FALSE, error |-> outcome]

\* MonarchTokenManager.deleteToken
DeleteToken(userId) ==
  /\ LET kv2 == KVDelete(kv, TokenKey(userId))
     IN /\ kv' = kv2
        /\ last' = [NoResp EXCEPT !.handler = "deleteToken", !.req = [userId |-> userId],
                      !.deleted = Deleted(kv, kv2)]
  /\ UNCHANGED <<now, ticks, nextId, proc, consumed, twice, raced, minted, sessUser,
                 codeVia, flow>>

\* performTokenKeepAlive up to the end of needsRefresh: the get of the metadata
KeepAliveBegin(p, userId) ==
  /\ proc[p].pc = "idle"
  /\ LET daysUntilExpiry == DaysResult(KVGet(TokenMetaKey(userId)), now)
         refreshStatus == NeedsRefresh(daysUntilExpiry, KeepAliveThresholdDays)
         seen == [daysUntilExpiry |-> daysUntilExpiry, refreshStatus |-> refreshStatus,
                  validateCalls |-> 0, accountsCalls |-> 0, validation |-> Null]
     IN IF KeepAliveExpired(daysUntilExpiry)
        THEN /\ last' = [NoResp EXCEPT !.handler = "performTokenKeepAlive",
                           !.req = [userId |-> userId],
                           !.seen = seen,
                           !.result = [success |-> FALSE, message |-> "expired"],
                           !.reads = {TokenMetaKey(userId)}]
             /\ UNCHANGED proc
        ELSE /\ proc' = [proc EXCEPT ![p] =
                           [pc |-> "keepAliveValidate", key |-> TokenMetaKey(userId),
                            req |-> [userId |-> userId], seen |-> seen,
                            after |-> FALSE, viaFlow |-> FALSE]]
             /\ UNCHANGED last
  /\ UNCHANGED <<now, ticks, kv, nextId, consumed, twice, raced, minted, sessUser,
                 codeVia, flow>>

\* validateToken: getToken, and with a token the call of getAccounts
KeepAliveValidate(p, outcome) ==
  /\ proc[p].pc = "keepAliveValidate"
  /\ LET token == KVGet(TokenKey(proc[p].req.userId))
     IN /\ (token = Null) <=> (outcome = None)
        /\ proc' = [proc EXCEPT ![p].pc = "keepAliveRecord",
                      ![p].seen = [@ EXCEPT !.validateCalls = @ + 1,
                                     !.accountsCalls = IF token = Null THEN @ ELSE @ + 1,
                                     !.validation = ValidateToken(token, outcome)]]
  /\ UNCHANGED <<now, ticks, kv, nextId, last, consumed, twice, raced, minted, sessUser,
                 codeVia, flow>>

\* recordValidation(validation.valid), and the return
KeepAliveRecord(p) ==
  /\ proc[p].pc = "keepAliveRecord"
  /\ LET userId == proc[p].req.userId
         validation == proc[p].seen.validation
         kv2 == KVPut(kv, ValidationKey(userId),
                      [timestamp |-> now, success |-> validation.valid], ValidationTtl)
     IN /\ kv' = kv2
        /\ last' = [NoResp EXCEPT !.handler = "performTokenKeepAlive",
                      !.req = proc[p].req,
                      !.seen = proc[p].seen,
                      !.result =
                        [success |-> validation.valid,
                         message |-> IF ~validation.valid THEN "validation_failed"
                                     ELSE IF proc[p].seen.refreshStatus.needsRefresh
                                     THEN "valid_expires_soon"
                                     ELSE "valid_and_active"],
                      !.reads = {TokenMetaKey(userId), TokenKey(userId)},
                      !.written = {ValidationKey(userId)}]   \* the key of the one put
  /\ proc' = [proc EXCEPT ![p] = Idle]
  /\ UNCHANGED <<now, ticks, nextId, consumed, twice, raced, minted, sessUser, codeVia,
                 flow>>

\* ---- a financial tool: get_accounts (mcp-server.ts) ----------------------------------
\* a gate that lets every status through
ClientGateOpen(status) == TRUE
\* getMonarchClient goes on when `!status.hasMonarchToken` is false
ClientGate(status) == status.hasMonarchToken
NoTool == [client |-> FALSE, downstreamCalls |-> 0, isError |-> TRUE, error |-> None]

\* the handler up to checkAuthHealth's getToken
GetAccountsBegin(p, userId) ==
  /\ proc[p].pc = "idle"
  /\ proc' = [proc EXCEPT ![p] =
                [pc |-> "toolHealth", key |-> TokenMetaKey(userId),
                 req |-> [userId |-> userId],
                 seen |-> [token |-> KVGet(TokenKey(userId))],
                 after |-> FALSE, viaFlow |-> FALSE]]
  /\ UNCHANGED <<now, ticks, kv, nextId, last, consumed, twice, raced, minted, sessUser,
                 codeVia, flow>>

\* checkAuthHealth's get of the metadata and its status; without a valid
\* token getMonarchClient throws and the handler's catch returns the error
GetAccountsHealth(p) ==
  /\ proc[p].pc = "toolHealth"
  /\ LET userId == proc[p].req.userId
         tokenMeta == KVGet(TokenMetaKey(userId))
         status == HealthStatus(proc[p].seen.token, tokenMeta, now)
         seen == [token |-> proc[p].seen.token, tokenMeta |-> tokenMeta,
                  status |-> status, healthAt |-> now]
     IN IF ClientGate(status)
        THEN /\ proc' = [proc EXCEPT ![p].pc = "toolDays", ![p].seen = seen]
             /\ UNCHANGED last
        ELSE /\ last' = [NoResp EXCEPT !.handler = "get_accounts", !.req = proc[p].req,
                           !.seen = seen,
                           !.result = [NoTool EXCEPT !.error = status.actionRequired],
                           !.reads = {TokenKey(userId), TokenMetaKey(userId)}]
             /\ proc' = [proc EXCEPT ![p] = Idle]
  /\ UNCHANGED <<now, ticks, kv, nextId, consumed, twice, raced, minted, sessUser,
                 codeVia, flow>>

\* needsRefresh({refreshThresholdDays: 7}): a second get of the metadata
GetAccountsDays(p) ==
  /\ proc[p].pc = "toolDays"
  /\ proc' = [proc EXCEPT ![p].pc = "toolToken",
                ![p].seen = @ @@ [refreshStatus |->
                  NeedsRefresh(DaysResult(KVGet(TokenMetaKey(proc[p].req.userId)), now),
                               RefreshThresholdDays)]]
  /\ UNCHANGED <<now, ticks, kv, nextId, last, consumed, twice, raced, minted, sessUser,
                 codeVia, flow>>

\* the second getToken; with a token the client is built and
\* client.getAccounts() contacts the downstream service
GetAccountsEnd(p, outcome) ==
  /\ proc[p].pc = "toolToken"
  /\ LET userId == proc[p].req.userId
         token == KVGet(TokenKey(userId))
     IN /\ (token = Null) <=> (outcome = None)
        /\ last' = [NoResp EXCEPT !.handler = "get_accounts", !.req = proc[p].req,
                      !.seen = proc[p].seen,
                      !.result = IF token = Null
                                 THEN [NoTool EXCEPT !.error = "Token validation failed"]
                                 ELSE [client |-> TRUE, downstreamCalls |-> 1,
                                       isError |-> outcome # "ok",
                                       error |-> IF outcome = "ok" THEN None ELSE outcome],
                      !.reads = {TokenKey(userId), TokenMetaKey(userId)}]
  /\ proc' = [proc EXCEPT ![p] = Idle]
  /\ UNCHANGED <<now, ticks, kv, nextId, consumed, twice, raced, minted, sessUser,
                 codeVia, flow>>

\* ---- POST /auth/refresh (index.ts) -------------------------------------------------
RefreshBodies == [email : {None, "e"}, password : {None, "pw"}, mfa_code : {None, "123"}]
\* what MonarchMoney.login / mfaAuth does: a client holding a token, or a
\* MonarchAuthError; the token of a client may be the empty string
LoginOutcomes ==
  {[token |-> t] : t \in MonarchTokens \cup {""}}
    \cup {[thrown |-> e] : e \in {"INVALID_CREDENTIALS", "MFA_REQUIRED"}}
\* the credential and metadata records of every user
Credentials(store) ==
  [k \in {j \in DOMAIN store : j[1] \in {"monarch:token", "monarch:token:meta"}} |->
     store[k]]
\* a handler that files every credential under one user
RefreshUserIdFixed(session) == "u1"
\* the userId passed to storeTokenWithMetadata: session.userId
RefreshUserId(session) == session.userId

\* the handler up to storeTokenWithMetadata's first put: requireAuth, the body,
\* the downstream login
AuthRefreshBegin(p, cookie, body, login) ==
  /\ proc[p].pc = "idle"
  /\ LET session == RequireAuth(cookie)
         base == [NoResp EXCEPT !.handler = "/auth/refresh",
                    !.req = [body |-> body, login |-> login],
                    !.cookie = cookie, !.sess = session,
                    !.seen = [before |-> Credentials(kv), after |-> Credentials(kv),
                              called |-> FALSE],
                    !.reads = IF cookie # NoId THEN {Key("session", cookie)} ELSE {}]
         called == [base EXCEPT !.seen.called = TRUE]
     IN IF session = Null
        THEN /\ last' = [base EXCEPT !.status = 302,
                           !.location = [path |-> "/auth/login"]]
             /\ UNCHANGED proc
        ELSE IF body.email = None \/ body.password = None
        THEN /\ last' = [base EXCEPT !.status = 400,
                           !.error = "Email and password required"]
             /\ UNCHANGED proc
        ELSE IF "thrown" \in DOMAIN login
        THEN /\ last' = [called EXCEPT !.status = 401, !.error = login.thrown]
             /\ UNCHANGED proc
        ELSE IF login.token = ""
        THEN /\ last' = [called EXCEPT !.status = 500,
                           !.error = "Failed to obtain token from Monarch Money"]
             /\ UNCHANGED proc
        ELSE /\ proc' = [proc EXCEPT ![p] =
                           [pc |-> "refreshToken",
                            key |-> TokenKey(RefreshUserId(session)),
                            req |-> [body |-> body, login |-> login, cookie |-> cookie,
                                     userId |-> RefreshUserId(session),
                                     token |-> login.token, expiryDays |-> ExpiryDays],
                            seen |-> [before |-> Credentials(kv), session |-> session,
                                      expiresAt |-> now + ExpiryDays * Day],
                            after |-> FALSE, viaFlow |-> FALSE]]
             /\ UNCHANGED last
  /\ UNCHANGED <<now, ticks, kv, nextId, consumed, twice, raced, minted, sessUser,
                 codeVia, flow>>

\* storeTokenWithMetadata's storeToken
AuthRefreshStoreToken(p) ==
  /\ proc[p].pc = "refreshToken"
  /\ kv' = KVPut(kv, TokenKey(proc[p].req.userId), [token |-> proc[p].req.token], TokenTtl)
  /\ proc' = [proc EXCEPT ![p].pc = "refreshMeta"]
  /\ UNCHANGED <<now, ticks, nextId, last, consumed, twice, raced, minted, sessUser,
                 codeVia, flow>>

\* the put of the metadata, and the 200
AuthRefreshEnd(p) ==
  /\ proc[p].pc = "refreshMeta"
  /\ LET req == proc[p].req
         kv2 == KVPut(kv, TokenMetaKey(req.userId),
                      [createdAt |-> now, expiresAt |-> proc[p].seen.expiresAt,
                       userId |-> req.userId], req.expiryDays * Day)
     IN /\ kv' = kv2
        /\ last' = [NoResp EXCEPT !.handler = "/auth/refresh",
                      !.req = [body |-> req.body, login |-> req.login],
                      !.cookie = req.cookie, !.sess = proc[p].seen.session,
                      !.status = 200,
                      !.seen = [before |-> proc[p].seen.before,
                                after |-> Credentials(kv2), called |-> TRUE],
                      !.reads = {Key("session", req.cookie)},
                      !.written = {TokenKey(req.userId), TokenMetaKey(req.userId)}]
  /\ proc' = [proc EXCEPT ![p] = Idle]
  /\ UNCHANGED <<now, ticks, nextId, consumed, twice, raced, minted, sessUser, codeVia,
                 flow>>

Next ==
  \/ \E d \in {StateTtl, AccessTtl} : Tick(d)
  \/ \E os \in {NoId} \cup ClientStates, f \in BOOLEAN : AuthLogin(os, f)
  \/ \E req \in AuthorizeReqs, ck \in {NoId} \cup Ids, f \in BOOLEAN :
       OAuthAuthorize(req, ck, f)
  \/ \E p \in Procs, req \in CallbackReqs, f \in BOOLEAN : AuthCallbackBegin(p, req, f)
  \/ \E p \in Procs : AuthCallbackEnd(p)
  \/ \E p \in Procs, body \in TokenReqs : OAuthTokenBegin(p, body)
  \/ \E p \in Procs : OAuthTokenEnd(p)
  \/ \E h \in AuthHeaders, ck \in {NoId} \cup Ids : McpEndpoint(h, ck)
  \/ \E ck \in {NoId} \cup Ids : AuthLogout(ck)
  \/ \E u \in Users, o \in BOOLEAN, c \in MagicCodes : GenerateMagicLink(u, o, c)
  \/ \E p \in Procs, c \in MagicCodes : ValidateMagicLinkBegin(p, c)
  \/ \E p \in Procs : ValidateMagicLinkEnd(p)
  \/ \E c \in MagicCodes : AuthMagic(c)
  \/ \E ck \in {NoId} \cup Ids : Dashboard(ck)
  \/ \E p \in Procs, u \in Users, t \in MonarchTokens :
       StoreTokenWithMetadataBegin(p, u, t, ExpiryDays)
  \/ \E p \in Procs : StoreToken(p)
  \/ \E p \in Procs, f \in BOOLEAN : StoreTokenWithMetadataEnd(p, f)
  \/ \E p \in Procs, u \in Users, b \in BaseUrls, e \in BaseUrls, f \in BOOLEAN :
       CheckAuthHealthBegin(p, u, b, e, f)
  \/ \E ck \in {NoId} \cup Ids, f \in BOOLEAN : ValidateSessionFromCookie(ck, f)
  \/ \E u \in Users : GetDaysUntilExpiry(u)
  \/ \E request \in RegistrationRequests : RegisterClient(request)
  \/ \E s \in Secrets, S \in Plaintexts, iv \in Ivs, f \in BOOLEAN : RoundTrip(s, S, iv, f)
  \/ \E s1, s2 \in Secrets, S \in Plaintexts, iv \in Ivs, f \in BOOLEAN :
       WrongSecret(s1, s2, S, iv, f)
  \/ \E randomValues \in RandomArrays : GenerateRandomCode(randomValues)
  \/ \E u \in Users : DeleteToken(u)
  \/ \E p \in Procs, u \in Users : KeepAliveBegin(p, u)
  \/ \E p \in Procs, outcome \in AccountsOutcomes : KeepAliveValidate(p, outcome)
  \/ \E p \in Procs : KeepAliveRecord(p)
  \/ \E p \in Procs, u \in Users : GetAccountsBegin(p, u)
  \/ \E p \in Procs : GetAccountsHealth(p)
  \/ \E p \in Procs : GetAccountsDays(p)
  \/ \E p \in Procs, outcome \in AccountsOutcomes : GetAccountsEnd(p, outcome)
  \/ \E p \in Procs, ck \in {NoId} \cup Ids, body \in RefreshBodies,
        login \in LoginOutcomes : AuthRefreshBegin(p, ck, body, login)
  \/ \E p \in Procs : AuthRefreshStoreToken(p)
  \/ \E p \in Procs : AuthRefreshEnd(p)
  \/ \E p \in Procs, u \in Users : CheckAuthStatusBegin(p, u)
  \/ \E p \in Procs : CheckAuthStatusHealth(p)
  \/ \E p \in Procs : CheckAuthStatusDays(p)
  \/ \E p \in Procs : CheckAuthStatusEnd(p)
  \/ \E p \in Procs, f \in BOOLEAN : CheckAuthHealthEnd(p, f)

Spec == Init /\ [][Next]_vars

\* ---- the one-time ledgers under two concurrent requests --------------------
GoodCallback == [code |-> "g-u1", state |-> 1, oauth_state |-> NoId]
GoodToken == [grant_type |-> "authorization_code", code |-> 1, redirect_uri |-> "r1",
              code_verifier |-> "v1", refresh_token |-> NoId]
Issued(ns) == nextId[ns] - 1       \* identifiers drawn so far in a namespace
NextOneTime ==
  \/ Issued("oauth:state") < 1 /\ AuthLogin(NoId, FALSE)
  \/ \E p \in Procs : AuthCallbackBegin(p, GoodCallback, FALSE)
  \/ \E p \in Procs : AuthCallbackEnd(p)
  \/ Issued("oauth:code") < 1 /\ OAuthAuthorize(AuthorizeBase, 1, FALSE)
  \/ \E p \in Procs : OAuthTokenBegin(p, GoodToken)
  \/ \E p \in Procs : OAuthTokenEnd(p)
  \/ \E u \in Users : GenerateMagicLink(u, TRUE, 1)
  \/ \E p \in Procs : ValidateMagicLinkBegin(p, 1)
  \/ \E p \in Procs : ValidateMagicLinkEnd(p)

SpecOneTime == Init /\ [][NextOneTime]_vars

\* ---- the grant cycle: authorize, redeem, refresh, use ------------------------
CodeGrants ==
  {[GoodToken EXCEPT !.code = c, !.redirect_uri = r, !.code_verifier = v] :
     c \in Ids, r \in RedirectUris, v \in Verifiers}
RefreshGrants ==
  {[GoodToken EXCEPT !.grant_type = "refresh_token", !.code = NoId,
                     !.redirect_uri = None, !.code_verifier = None,
                     !.refresh_token = t] : t \in Ids}
\* code redemption: every valid authorization request, every combination of
\* code, redirect_uri and code_verifier at the token endpoint
NextGrant ==
  \/ Tick(CodeTtl)
  \/ Issued("oauth:state") < 1 /\ AuthLogin(NoId, FALSE)
  \/ AuthCallbackBegin(1, GoodCallback, FALSE)
  \/ AuthCallbackEnd(1)
  \/ \E req \in AuthorizeValid : OAuthAuthorize(req, 1, FALSE)
  \/ \E body \in CodeGrants : OAuthTokenBegin(1, body)
  \/ OAuthTokenEnd(1)

SpecGrant == Init /\ [][NextGrant]_vars

\* refresh: codes redeemed with the right redirect_uri and verifier, then any
\* number of refresh grants while the clock advances
NextRefresh ==
  \/ \E d \in {CodeTtl, AccessTtl} : Tick(d)
  \/ Issued("oauth:state") < 1 /\ AuthLogin(NoId, FALSE)
  \/ \E u \in {"g-u1", "g-u2"} :
       AuthCallbackBegin(1, [GoodCallback EXCEPT !.code = u], FALSE)
  \/ AuthCallbackEnd(1)
  \/ OAuthAuthorize(AuthorizeBase, 1, FALSE)
  \/ \E c \in Ids : OAuthTokenBegin(1, [GoodToken EXCEPT !.code = c])
  \/ \E body \in RefreshGrants : OAuthTokenBegin(1, body)
  \/ OAuthTokenEnd(1)

SpecRefresh == Init /\ [][NextRefresh]_vars

\* ---- the protected endpoint ------------------------------------------------------
NextMcp ==
  \/ Tick(AccessTtl)
  \/ Issued("oauth:state") < 1 /\ AuthLogin(NoId, FALSE)
  \/ AuthCallbackBegin(1, GoodCallback, FALSE)
  \/ AuthCallbackEnd(1)
  \/ Issued("oauth:code") < 1 /\ OAuthAuthorize(AuthorizeBase, 1, FALSE)
  \/ OAuthTokenBegin(1, GoodToken)
  \/ OAuthTokenEnd(1)
  \/ \E h \in AuthHeaders, ck \in {NoId} \cup Ids : McpEndpoint(h, ck)
  \/ AuthLogout(1)

SpecMcp == Init /\ [][NextMcp]_vars

\* ---- sessions, the authorize endpoint and the identify detour -----------------
DetourCallbacks ==
  [code : {"g-u1", "g-u2"}, state : Ids, oauth_state : {NoId} \cup ClientStates]
\* sessions come and go by login, logout and expiry while /oauth/authorize is
\* requested with every cookie
NextSession ==
  \/ Tick(SessionTtl)
  \/ AuthLogin(NoId, FALSE)
  \/ \E req \in {r \in DetourCallbacks : r.oauth_state = NoId} :
       AuthCallbackBegin(1, req, FALSE)
  \/ AuthCallbackEnd(1)
  \/ \E ck \in {NoId} \cup Ids : OAuthAuthorize(AuthorizeBase, ck, FALSE)
  \/ \E ck \in Ids : AuthLogout(ck)

SpecSession == Init /\ [][NextSession]_vars

\* one user agent follows the redirects from /oauth/authorize through the
\* identity provider, next to requests of other user agents
NextDetour ==
  \/ Tick(StateTtl)
  \/ Issued("oauth:state") < 1 /\ AuthLogin(NoId, FALSE)
  \/ AuthLogin(flow.req.state, TRUE)
  \/ \E req \in DetourCallbacks, f \in BOOLEAN : AuthCallbackBegin(1, req, f)
  \/ AuthCallbackEnd(1)
  \/ \E f \in BOOLEAN : OAuthAuthorize(AuthorizeBase, flow.cookie, f)

SpecDetour == Init /\ [][NextDetour]_vars

\* ---- who counts as signed in ---------------------------------------------------
\* the store can hold session records that createSession did not write: the
\* SessionData type admits authenticated = false, and a record of another
\* shape has no such field at all
ForeignFalse == MaxIds + 1
ForeignMissing == MaxIds + 2
ForeignSessions ==
  KVPut(KVPut(<<>>, Key("session", ForeignFalse),
              [SessionData("u1") EXCEPT !.authenticated = FALSE], SessionTtl),
        Key("session", ForeignMissing),
        [userId |-> "u1", username |-> "u1", email |-> ""], SessionTtl)
InitAccept ==
  /\ now = 0
  /\ ticks = 0
  /\ kv = ForeignSessions
  /\ nextId = [ns \in Namespaces |-> 1]
  /\ proc = [p \in Procs |-> Idle]
  /\ last = NoResp
  /\ consumed = {}
  /\ twice = {}
  /\ raced = {}
  /\ minted = {}
  /\ sessUser = <<>>
  /\ codeVia = <<>>
  /\ flow = NoFlow
Cookies == {NoId, ForeignFalse, ForeignMissing} \cup Ids
NextAccept ==
  \/ Tick(SessionTtl)
  \/ Issued("oauth:state") < 1 /\ AuthLogin(NoId, FALSE)
  \/ AuthCallbackBegin(1, GoodCallback, FALSE)
  \/ AuthCallbackEnd(1)
  \/ \E ck \in Cookies : OAuthAuthorize(AuthorizeBase, ck, FALSE)
  \/ \E ck \in Cookies : Dashboard(ck)
  \/ \E ck \in Cookies : McpEndpoint(NoHeader, ck)
  \/ \E ck \in Ids : AuthLogout(ck)

SpecAccept == InitAccept /\ [][NextAccept]_vars

\* ---- malformed requests ------------------------------------------------------------
\* authorize requests with two things wrong at once
AuthorizeTwoFaults ==
  { [AuthorizeBase EXCEPT !.client_id = None, !.response_type = "token"],
    [AuthorizeBase EXCEPT !.code_challenge = None, !.code_challenge_method = "plain"],
    [AuthorizeBase EXCEPT !.response_type = "token", !.code_challenge_method = "plain"] }
TokenMalformed ==
  { [GoodToken EXCEPT !.code = NoId],
    [GoodToken EXCEPT !.redirect_uri = None],
    [GoodToken EXCEPT !.code_verifier = None],
    [GoodToken EXCEPT !.grant_type = "refresh_token"],
    [GoodToken EXCEPT !.grant_type = "password"] }
NextParams ==
  \/ Issued("oauth:state") < 1 /\ AuthLogin(NoId, FALSE)
  \/ AuthCallbackBegin(1, GoodCallback, FALSE)
  \/ AuthCallbackEnd(1)
  \/ \E req \in AuthorizeReqs \cup AuthorizeTwoFaults, ck \in {NoId, 1} :
       OAuthAuthorize(req, ck, FALSE)
  \/ \E body \in {GoodToken} \cup TokenMalformed : OAuthTokenBegin(1, body)
  \/ OAuthTokenEnd(1)

SpecParams == Init /\ [][NextParams]_vars

\* ---- expiry of the one-time values ---------------------------------------------
\* every one-time value is issued at time 0, so that `now` is the age of each
\* (two states, so that one outlives the sign-in, one code, one magic link);
\* the clock advances between requests, and every value, issued or not, is
\* then presented for validation
AllIdle == \A p \in Procs : proc[p].pc = "idle"
NextExpiry ==
  \/ \E d \in {1, StateTtl} : AllIdle /\ Tick(d)
  \/ ticks = 0 /\ Issued("oauth:state") < 2 /\ AuthLogin(NoId, FALSE)
  \/ \E s \in Ids : AuthCallbackBegin(1, [GoodCallback EXCEPT !.state = s], FALSE)
  \/ AuthCallbackEnd(1)
  \/ ticks = 0 /\ Issued("oauth:code") < 1 /\ OAuthAuthorize(AuthorizeBase, 1, FALSE)
  \/ \E c \in Ids : OAuthTokenBegin(1, [GoodToken EXCEPT !.code = c])
  \/ OAuthTokenEnd(1)
  \/ ticks = 0 /\ GenerateMagicLink("u1", TRUE, 1)
  \/ \E c \in MagicCodes : ValidateMagicLinkBegin(1, c)
  \/ ValidateMagicLinkEnd(1)

SpecExpiry == Init /\ [][NextExpiry]_vars

\* ---- credential health -----------------------------------------------------------
\* the credential is stored and its health is asked for while the clock
\* advances, by a little during a request and by almost the credential's
\* lifetime between requests
NextHealth ==
  \/ \E d \in {2, TokenTtl - 1} : Tick(d)
  \/ \E u \in Users : StoreTokenWithMetadataBegin(1, u, "t1", ExpiryDays)
  \/ StoreToken(1)
  \/ StoreTokenWithMetadataEnd(1, FALSE)
  \/ \E u \in Users : CheckAuthHealthBegin(2, u, None, "https://w", FALSE)
  \/ CheckAuthHealthEnd(2, FALSE)

SpecHealth == Init /\ [][NextHealth]_vars

\* the health check under every combination of the baseUrl argument and the
\* PUBLIC_BASE_URL setting
NextActionable ==
  \/ Tick(TokenTtl - 1)
  \/ \E u \in Users : StoreTokenWithMetadataBegin(1, u, "t1", ExpiryDays)
  \/ StoreToken(1)
  \/ StoreTokenWithMetadataEnd(1, FALSE)
  \/ \E u \in Users, b \in BaseUrls, e \in BaseUrls : CheckAuthHealthBegin(2, u, b, e, FALSE)
  \/ CheckAuthHealthEnd(2, FALSE)

SpecActionable == Init /\ [][NextActionable]_vars

\* store reads that fail, during the health check and during session
\* resolution
NextFailure ==
  \/ Issued("oauth:state") < 1 /\ AuthLogin(NoId, FALSE)
  \/ AuthCallbackBegin(1, GoodCallback, FALSE)
  \/ AuthCallbackEnd(1)
  \/ \E ck \in {NoId, 1}, f \in BOOLEAN : ValidateSessionFromCookie(ck, f)
  \/ \E u \in Users : StoreTokenWithMetadataBegin(1, u, "t1", ExpiryDays)
  \/ StoreToken(1)
  \/ StoreTokenWithMetadataEnd(1, FALSE)
  \/ \E u \in Users, f \in BOOLEAN : CheckAuthHealthBegin(2, u, None, "https://w", f)
  \/ \E f \in BOOLEAN : CheckAuthHealthEnd(2, f)

SpecFailure == Init /\ [][NextFailure]_vars

\* the credential is stored and refreshed while another request asks for its
\* health; the second write of a refresh may fail
NextPair ==
  \/ AllIdle /\ Tick(Day)
  \/ \E t \in MonarchTokens : StoreTokenWithMetadataBegin(1, "u1", t, ExpiryDays)
  \/ StoreToken(1)
  \/ \E f \in BOOLEAN : StoreTokenWithMetadataEnd(1, f)
  \/ CheckAuthHealthBegin(2, "u1", None, "https://w", FALSE)
  \/ CheckAuthHealthEnd(2, FALSE)
  \/ GetDaysUntilExpiry("u1")

SpecPair == Init /\ [][NextPair]_vars

\* clients register with every combination of supplied and missing fields,
\* while the clock advances by less than a registration's lifetime
NextRegister ==
  \/ Tick(SessionTtl)
  \/ \E request \in RegistrationRequests : RegisterClient(request)

SpecRegister == Init /\ [][NextRegister]_vars

\* the cipher applied once to every secret and plaintext: its result depends
\* on nothing an earlier call left behind
NextCipher ==
  \/ /\ last = NoResp
     /\ \E s \in Secrets, S \in Plaintexts, iv \in Ivs, f \in BOOLEAN :
          RoundTrip(s, S, iv, f)
  \/ /\ last = NoResp
     /\ \E s1, s2 \in Secrets, S \in Plaintexts, iv \in Ivs, f \in BOOLEAN :
          WrongSecret(s1, s2, S, iv, f)

SpecCipher == Init /\ [][NextCipher]_vars

\* ---- days until expiry -------------------------------------------------------------
\* the inputs of getDaysUntilExpiry: a stored pair whose expiresAt lies around
\* the clock's range, at either side of every whole number of days
ExpiryInputs ==
  {k * Day + j : k \in (-2..2) \cup {7, 8, 30, 31}, j \in {-1, 0, 1}} \cup {60 * Day}
StoredPair(userId, expiresAt) ==
  (TokenKey(userId) :> [val |-> [token |-> "t1"], exp |-> 100 * Day]) @@
  (TokenMetaKey(userId) :>
     [val |-> [createdAt |-> 0, expiresAt |-> expiresAt, userId |-> userId],
      exp |-> 100 * Day])
InitDays ==
  /\ now = 0
  /\ ticks = 0
  /\ kv \in {<<>>} \cup {StoredPair("u1", e) : e \in ExpiryInputs}
  /\ nextId = [ns \in Namespaces |-> 1]
  /\ proc = [p \in Procs |-> Idle]
  /\ last = NoResp
  /\ consumed = {}
  /\ twice = {}
  /\ raced = {}
  /\ minted = {}
  /\ sessUser = <<>>
  /\ codeVia = <<>>
  /\ flow = NoFlow
NextDays ==
  \/ \E d \in {1, Day, 30 * Day} : Tick(d)
  \/ StoreTokenWithMetadataBegin(1, "u1", "t1", ExpiryDays)
  \/ StoreToken(1)
  \/ StoreTokenWithMetadataEnd(1, FALSE)
  \/ CheckAuthHealthBegin(2, "u1", None, "https://w", FALSE)
  \/ CheckAuthHealthEnd(2, FALSE)
  \/ GetDaysUntilExpiry("u1")

SpecDays == InitDays /\ [][NextDays]_vars

\* the status tool on a stored pair, the clock advancing between its store reads
NextReport ==
  \/ \E d \in {1, Day} : Tick(d)
  \/ CheckAuthStatusBegin(1, "u1")
  \/ CheckAuthStatusHealth(1)
  \/ CheckAuthStatusDays(1)
  \/ CheckAuthStatusEnd(1)

SpecReport == InitDays /\ [][NextReport]_vars

\* the keep-alive on a stored pair, the clock advancing and the token being
\* deleted between its steps
NextKeepAlive ==
  \/ \E d \in {1, Day} : Tick(d)
  \/ DeleteToken("u1")
  \/ KeepAliveBegin(1, "u1")
  \/ \E outcome \in AccountsOutcomes : KeepAliveValidate(1, outcome)
  \/ KeepAliveRecord(1)

SpecKeepAlive == InitDays /\ [][NextKeepAlive]_vars

\* the get_accounts tool on a stored pair, the clock advancing and the token
\* being deleted between its store reads
NextTool ==
  \/ \E d \in {1, Day} : Tick(d)
  \/ DeleteToken("u1")
  \/ GetAccountsBegin(1, "u1")
  \/ GetAccountsHealth(1)
  \/ GetAccountsDays(1)
  \/ \E outcome \in AccountsOutcomes : GetAccountsEnd(1, outcome)

SpecTool == InitDays /\ [][NextTool]_vars

\* two users sign in and refresh their credentials, with every cookie, body
\* and outcome of the downstream login
NextCredential ==
  \/ Issued("oauth:state") < 2 /\ AuthLogin(NoId, FALSE)
  \/ AuthCallbackBegin(1, GoodCallback, FALSE)
  \/ AuthCallbackBegin(1, [GoodCallback EXCEPT !.code = "g-u2", !.state = 2], FALSE)
  \/ AuthCallbackEnd(1)
  \/ \E ck \in Ids : AuthLogout(ck)
  \/ \E ck \in {NoId} \cup Ids, body \in RefreshBodies, login \in LoginOutcomes :
       AuthRefreshBegin(1, ck, body, login)
  \/ AuthRefreshStoreToken(1)
  \/ AuthRefreshEnd(1)

SpecCredential == Init /\ [][NextCredential]_vars

\* ---- the login callback ------------------------------------------------------------
\* callbacks with every state, issued or not, whose identity-provider code is
\* good or makes the exchange fail
NextCallback ==
  \/ Tick(StateTtl)
  \/ AuthLogin(NoId, FALSE)
  \/ \E c \in {"g-u1", "g-bad"}, s \in Ids :
       AuthCallbackBegin(1, [code |-> c, state |-> s, oauth_state |-> NoId], FALSE)
  \/ AuthCallbackEnd(1)

SpecCallback == Init /\ [][NextCallback]_vars

\* ---- magic links ------------------------------------------------------------------
\* every generateMagicLink call has a base URL and returns its link
NextMagic ==
  \/ Tick(MagicTtl)
  \/ \E u \in Users, c \in MagicCodes : GenerateMagicLink(u, TRUE, c)
  \/ \E c \in MagicCodes : AuthMagic(c)
  \/ \E c \in MagicCodes : ValidateMagicLinkBegin(1, c)
  \/ ValidateMagicLinkEnd(1)

SpecMagic == Init /\ [][NextMagic]_vars

\* magic links generated with and without a base URL, and redeemed
NextLink ==
  \/ Tick(MagicTtl)
  \/ \E u \in Users, o \in BOOLEAN, c \in MagicCodes : GenerateMagicLink(u, o, c)
  \/ \E c \in MagicCodes : ValidateMagicLinkBegin(1, c)
  \/ ValidateMagicLinkEnd(1)

SpecLink == Init /\ [][NextLink]_vars

\* codes drawn from random arrays
NextCode == \E randomValues \in RandomArrays : GenerateRandomCode(randomValues)

SpecCode == Init /\ [][NextCode]_vars

\* two logins of the same user, one authorization code redeemed, then logouts
\* and MCP requests with every cookie and token
NextLogout ==
  \/ Tick(AccessTtl)
  \/ Issued("oauth:state") < 2 /\ AuthLogin(NoId, FALSE)
  \/ \E st \in Ids : AuthCallbackBegin(1, [GoodCallback EXCEPT !.state = st], FALSE)
  \/ AuthCallbackEnd(1)
  \/ \E ck \in Ids : Issued("oauth:code") < 1 /\ OAuthAuthorize(AuthorizeBase, ck, FALSE)
  \/ OAuthTokenBegin(1, GoodToken)
  \/ OAuthTokenEnd(1)
  \/ \E h \in AuthHeaders, ck \in {NoId} \cup Ids : McpEndpoint(h, ck)
  \/ \E ck \in {NoId} \cup Ids : AuthLogout(ck)

SpecLogout == Init /\ [][NextLogout]_vars

\* authorization requests with every code_challenge_method, directly and
\* through the identify detour, and redemptions with a right and a wrong verifier
MethodReqs ==
  {[AuthorizeBase EXCEPT !.code_challenge_method = m] : m \in {"S256", "plain", None}}
NextPkce ==
  \/ Issued("oauth:state") < 1 /\ AuthLogin(NoId, FALSE)
  \/ AuthLogin(flow.req.state, TRUE)
  \/ \E req \in DetourCallbacks, f \in BOOLEAN : AuthCallbackBegin(1, req, f)
  \/ AuthCallbackEnd(1)
  \/ \E req \in MethodReqs, ck \in {NoId} \cup Ids, f \in BOOLEAN :
       OAuthAuthorize(req, ck, f)
  \/ \E c \in Ids, v \in Verifiers :
       OAuthTokenBegin(1, [GoodToken EXCEPT !.code = c, !.code_verifier = v])
  \/ OAuthTokenEnd(1)

SpecPkce == Init /\ [][NextPkce]_vars

\* two users sign in, each authorizes clients, codes are redeemed and refresh
\* tokens used
IdentityReqs == {[AuthorizeBase EXCEPT !.client_id = c] : c \in {"c1", "c2"}}
NextIdentity ==
  \/ Tick(AccessTtl)
  \/ Issued("oauth:state") < 2 /\ AuthLogin(NoId, FALSE)
  \/ AuthCallbackBegin(1, GoodCallback, FALSE)
  \/ AuthCallbackBegin(1, [GoodCallback EXCEPT !.code = "g-u2", !.state = 2], FALSE)
  \/ AuthCallbackEnd(1)
  \/ \E req \in IdentityReqs, ck \in Ids :
       Issued("oauth:code") < 2 /\ OAuthAuthorize(req, ck, FALSE)
  \/ \E c \in Ids : OAuthTokenBegin(1, [GoodToken EXCEPT !.code = c])
  \/ \E body \in RefreshGrants :
       Issued("oauth:access") < 3 /\ OAuthTokenBegin(1, body)
  \/ OAuthTokenEnd(1)
  \/ \E t \in AccessIds : McpEndpoint([scheme |-> "Bearer", token |-> t], NoId)

SpecIdentity == Init /\ [][NextIdentity]_vars

\* one client registers with redirect_uris [r1]; codes are asked for and
\* redeemed in the name of that client and of a client id that was never
\* issued, with either redirect_uri, the token request naming any client
UnregisteredReqs ==
  {[AuthorizeBase EXCEPT !.client_id = c, !.redirect_uri = r] :
     c \in {"c1", "c9"}, r \in RedirectUris}
UnregisteredGrants ==
  {[client_id |-> c] @@ [GoodToken EXCEPT !.code = n, !.redirect_uri = r] :
     c \in {"c1", "c9", None}, n \in Ids, r \in RedirectUris}
RegistrationPlain ==
  [client_name |-> Undefined, client_uri |-> Undefined,
   redirect_uris |-> [v |-> <<"r1">>], grant_types |-> Undefined,
   response_types |-> Undefined, scope |-> Undefined,
   token_endpoint_auth_method |-> Undefined]
NextUnregistered ==
  \/ Issued("oauth:client") < 1 /\ RegisterClient(RegistrationPlain)
  \/ Issued("oauth:state") < 1 /\ AuthLogin(NoId, FALSE)
  \/ AuthCallbackBegin(1, GoodCallback, FALSE)
  \/ AuthCallbackEnd(1)
  \/ \E req \in UnregisteredReqs, ck \in {NoId, 1} :
       Issued("oauth:code") < 2 /\ OAuthAuthorize(req, ck, FALSE)
  \/ \E body \in UnregisteredGrants : OAuthTokenBegin(1, body)
  \/ OAuthTokenEnd(1)

SpecUnregistered == Init /\ [][NextUnregistered]_vars

OneTimeHandlers == {"/auth/callback", "validateMagicLink", "/oauth/token"}

\* C1: a validation of a one-time value (CSRF state, magic-link code,
\* authorization code with the right redirect_uri and verifier) that starts
\* after a successful validation of the same issued value has returned, with
\* no re-issue in between, does not succeed.
C1_SecondValidationFails ==
  (last.handler \in OneTimeHandlers /\ last.after) => ~last.result.ok

\* a second redemption of a redeemed code, with the correct inputs, was refused
C1_Witness ==
  /\ last.handler = "/oauth/token" /\ last.req = GoodToken
  /\ last.after /\ last.status = 400 /\ last.error = "invalid_grant"
  /\ StateKey(1) \in consumed /\ MagicKey(1) \in consumed

\* C5: one-time use is best-effort under concurrency.  A value is validated
\* successfully twice only when the second request read the record while the
\* first had read it and not yet deleted it; the witness shows that this
\* interleaving exists for all three ledgers.
C5_TwiceOnlyByRace == twice \subseteq raced

MintedFromCode(code, ns) ==
  {m \in minted : m.key[1] = ns /\ m.grant = "authorization_code" /\ m.from = code}
\* both concurrent validations succeeded: two token pairs from one code
C5_Witness ==
  /\ {StateKey(1), MagicKey(1), CodeKey(1)} \subseteq twice
  /\ Cardinality(MintedFromCode(1, "oauth:access")) = 2
  /\ Cardinality(MintedFromCode(1, "oauth:refresh")) = 2

IsCodeGrant(r) == r.handler = "/oauth/token" /\ r.req.grant_type = "authorization_code"
IsRefreshGrant(r) == r.handler = "/oauth/token" /\ r.req.grant_type = "refresh_token"
Refused(r) ==
  /\ r.status = 400 /\ r.error = "invalid_grant"
  /\ r.access = NoId /\ r.refresh = NoId /\ r.written = {}

\* C2: PKCE binding.  A redemption that found the code stored and whose
\* code_verifier does not transform to the stored code_challenge is answered
\* invalid_grant and writes no token, whatever the redirect_uri.
C2_PkceBinding ==
  (IsCodeGrant(last) /\ last.seen # Null
     /\ S256(last.req.code_verifier) # last.seen.codeChallenge)
  => Refused(last)

\* a live code, the right redirect_uri, the wrong verifier: refused
C2_Witness ==
  /\ IsCodeGrant(last) /\ last.seen # Null
  /\ last.seen.redirectUri = last.req.redirect_uri
  /\ S256(last.req.code_verifier) # last.seen.codeChallenge
  /\ last.error = "invalid_grant"

\* C3: redirect URI binding.  A redemption that found the code stored and
\* whose redirect_uri differs from the stored one is answered invalid_grant and
\* writes no token, even with the correct verifier.
C3_RedirectBinding ==
  (IsCodeGrant(last) /\ last.seen # Null
     /\ last.req.redirect_uri # last.seen.redirectUri)
  => Refused(last)

\* a live code, the right verifier, another redirect_uri: refused
C3_Witness ==
  /\ IsCodeGrant(last) /\ last.seen # Null
  /\ last.req.redirect_uri # last.seen.redirectUri
  /\ S256(last.req.code_verifier) = last.seen.codeChallenge
  /\ last.error = "invalid_grant"

\* C4: after any redemption attempt that found the code stored, successful or
\* not, the record oauth:code:{code} is absent.
C4_DeletedOnFirstAttempt ==
  (IsCodeGrant(last) /\ last.seen # Null) => CodeKey(last.req.code) \notin DOMAIN kv

\* C8: the refresh grant neither consumes nor rotates the refresh token: a
\* successful refresh grant deletes nothing, writes exactly the new access
\* token and returns no refresh token, and every refresh token stays stored as
\* minted until its TTL has elapsed.
C8_RefreshNotRotated ==
  /\ (IsRefreshGrant(last) /\ last.status = 200)
       => /\ last.deleted = {} /\ last.refresh = NoId
          /\ last.written = {AccessKey(last.access)}
  /\ \A m \in minted :
       (m.key[1] = "oauth:refresh" /\ now < m.at + RefreshTtl)
       => /\ Live(m.key)
          /\ ValidateRefreshToken(m.key[2]) = [userId |-> m.userId, clientId |-> m.clientId]

\* the same refresh token has served two successful refresh grants
C8_Witness ==
  /\ IsRefreshGrant(last) /\ last.status = 200
  /\ Cardinality({m \in minted : m.grant = "refresh_token"
                                 /\ m.from = last.req.refresh_token}) = 2
  /\ Live(RefreshKey(last.req.refresh_token))

AccessMints == {m \in minted : m.key[1] = "oauth:access"}
\* the access token minted at the code redemption that minted refresh token r
IssuedWith(r) ==
  {a \in AccessMints : a.grant = "authorization_code"
     /\ \E m \in minted : m.key = RefreshKey(r) /\ m.from = a.from}

\* C9: every mint makes a new access token, a token minted by a refresh grant
\* belongs to the user of the token minted at the code redemption, and every
\* access token validates to its user until its own 7-day TTL has elapsed,
\* whatever was minted after it.
C9_OldAndNewValid ==
  /\ \A a, b \in AccessMints : a # b => a.key # b.key
  /\ \A a \in AccessMints :
       a.grant = "refresh_token" => \A b \in IssuedWith(a.from) : b.userId = a.userId
  /\ \A a \in AccessMints :
       now < a.at + AccessTtl => ValidateAccessToken(a.key[2]) = [userId |-> a.userId]

\* a refresh grant made later than the redemption returned a second token,
\* and the first one still validates
C9_Witness ==
  /\ IsRefreshGrant(last) /\ last.status = 200
  /\ \E b \in IssuedWith(last.req.refresh_token) :
       /\ b.key # AccessKey(last.access)
       /\ b.at < now
       /\ ValidateAccessToken(b.key[2]) = ValidateAccessToken(last.access)
       /\ ValidateAccessToken(b.key[2]) # Null

\* C6: no authorization code without a session.  Every stored code was
\* written by an /oauth/authorize request whose cookie resolved, in the store
\* at that moment, to a session created by createSession with
\* authenticated = true, and the code carries that session's userId.
C6_CodeNeedsSession ==
  \A c \in Ids :
    CodeKey(c) \in DOMAIN kv =>
      /\ c \in DOMAIN codeVia
      /\ codeVia[c].cookie \in DOMAIN sessUser
      /\ codeVia[c].sess # Null
      /\ codeVia[c].sess.authenticated
      /\ kv[CodeKey(c)].val.userId = sessUser[codeVia[c].cookie]

\* a code of user u2 is stored although the session it came from is gone
C6_Witness ==
  \E c \in Ids :
    /\ Live(CodeKey(c))
    /\ kv[CodeKey(c)].val.userId = "u2"
    /\ ~Live(Key("session", codeVia[c].cookie))

\* C7: a Bearer header whose token the store does not hold is answered 401
\* with WWW-Authenticate and the MCP handler is not reached, whatever the
\* session cookie of the same request.
C7_UnknownBearerRejected ==
  (last.handler = "/mcp" /\ last.req.authorization.scheme = "Bearer"
     /\ last.seen = Null)
  => (last.status = 401 /\ last.wwwAuth /\ ~last.mcp)

\* a Bearer token the store does not hold, sent together with the cookie of a
\* live session, after an access token has been issued to the same user
C7_Witness ==
  /\ last.handler = "/mcp" /\ last.req.authorization.scheme = "Bearer"
  /\ last.seen = Null /\ last.status = 401
  /\ last.sess # Null /\ SessionOk(last.sess)
  /\ minted # {}

\* C10: the identify detour completes.  When the callback of a detour that
\* started at /oauth/authorize succeeds while the pending parameters are still
\* stored, it redirects to /oauth/authorize with the original client_id,
\* redirect_uri, code_challenge and state.
C10_DetourReturns ==
  (last.handler = "/auth/callback" /\ last.viaFlow /\ last.status = 302
     /\ Live(PendingKey(flow.req.state)))
  => /\ last.location.path = "/oauth/authorize"
     /\ AuthorizeFromLocation(last.location) = flow.req

\* what the caller of the token endpoint sees of an exchange
TokenResponse(r) ==
  [status |-> r.status, error |-> r.error, access_token |-> r.access,
   refresh_token |-> r.refresh]
\* why validateAuthorizationCode returned null
NeverIssued(r) == r.seen = Null /\ r.req.code \notin DOMAIN codeVia
Redeemed(r) == r.seen = Null /\ r.after
Expired(r) == r.seen = Null /\ r.req.code \in DOMAIN codeVia /\ ~r.after
RedirectMismatch(r) == r.seen # Null /\ r.req.redirect_uri # r.seen.redirectUri
PkceMismatch(r) == r.seen # Null /\ S256(r.req.code_verifier) # r.seen.codeChallenge

\* C11: no oracle at the token endpoint.  An authorization_code request with
\* code, redirect_uri and code_verifier present gets the same response, 400
\* with error invalid_grant and no token, whether the code never existed, has
\* expired, was already redeemed, has another redirect_uri or fails PKCE.
C11_NoOracle ==
  (IsCodeGrant(last) /\ last.req.code # NoId /\ last.req.redirect_uri # None
     /\ last.req.code_verifier # None
     /\ (NeverIssued(last) \/ Expired(last) \/ Redeemed(last)
           \/ RedirectMismatch(last) \/ PkceMismatch(last)))
  => TokenResponse(last) = [status |-> 400, error |-> "invalid_grant",
                            access_token |-> NoId, refresh_token |-> NoId]

\* an issued code that was never redeemed is presented after its TTL, with the
\* redirect_uri and verifier it was issued for
C11_Witness ==
  /\ IsCodeGrant(last) /\ Expired(last)
  /\ last.req.redirect_uri = "r1" /\ last.req.code_verifier = "v1"
  /\ codeVia[last.req.code].sess # Null
  /\ CodeKey(last.req.code) \notin consumed
  /\ TokenResponse(last).error = "invalid_grant"

\* the request was let through as a signed-in user
Accepted(r) ==
  \/ r.handler = "/oauth/authorize" /\ \E k \in r.written : k[1] = "oauth:code"
  \/ r.handler = "/dashboard" /\ r.status = 200
  \/ r.handler = "/mcp" /\ r.mcp
SentToLogin(r) ==
  /\ r.status = 302 /\ r.location.path = "/auth/login"
  /\ \A k \in r.written : k[1] # "oauth:code"

\* C12: a session with authenticated = false is never produced or accepted.
\* Every record createSession wrote has authenticated = true; and a request to
\* /oauth/authorize (with valid parameters) or to a route behind requireAuth
\* whose session record is absent, or has authenticated false or missing, is
\* sent to the login page and gets no code.
C12_NoUnauthenticatedSession ==
  /\ \A s \in DOMAIN sessUser :
       Live(Key("session", s)) =>
         /\ "authenticated" \in DOMAIN kv[Key("session", s)].val
         /\ kv[Key("session", s)].val.authenticated = TRUE
  /\ (/\ \/ last.handler = "/oauth/authorize" /\ last.status # 400
         \/ last.handler = "/dashboard"
         \/ last.handler = "/mcp" /\ last.req.authorization.scheme # "Bearer"
      /\ \/ last.sess = Null
         \/ "authenticated" \notin DOMAIN last.sess
         \/ ~last.sess.authenticated)
     => (SentToLogin(last) /\ ~Accepted(last))

\* /oauth/authorize was asked with the cookie of a stored record whose
\* authenticated is false, while a session made by createSession is live
C12_Witness ==
  /\ last.handler = "/oauth/authorize" /\ last.cookie = ForeignFalse
  /\ last.sess # Null /\ ~last.sess.authenticated
  /\ SentToLogin(last)
  /\ \E s \in DOMAIN sessUser : Live(Key("session", s))

\* C13: a session minted by magic-link redemption lives one hour.  A request
\* to /auth/magic/:code for a link that is stored and unexpired gets a session
\* cookie, and more than 3600 seconds after that request getSession on the
\* cookie's session id returns nothing.
C13_MagicSessionOneHour ==
  (last.handler = "/auth/magic" /\ last.seen # Null)
  => /\ last.status = 302 /\ last.cookie # NoId
     /\ last.cookie \in DOMAIN sessUser
     /\ now > last.req.at + 3600 => GetSession(last.cookie) = Null

\* C14: magic-link binding.  A successful validation returns the user of the
\* record it read, and a generateMagicLink call never changes the user that
\* an outstanding link (unexpired, not yet validated) resolves to.
C14_LinkKeepsItsUser ==
  /\ (last.handler = "validateMagicLink" /\ last.result.ok)
       => last.result.userId = last.seen.userId
  /\ (last.handler = "generateMagicLink" /\ last.seen # Null)
       => \A k \in last.written : Live(k) => kv[k].val.userId = last.seen.userId

\* C15: CSRF abort.  The callback reaches the identity-provider exchange and
\* createSession only when validateState found the state; a state that was
\* never issued, is consumed or has expired gets the one answer 400
\* invalid_state and no session; and a state that was found is gone from the
\* store when the callback returns, also when the exchange failed.
C15_CsrfAbort ==
  last.handler = "/auth/callback" =>
    /\ (last.status \in {302, 500} \/ last.cookie # NoId
          \/ \E k \in last.written : k[1] = "session")
         => last.seen # Null
    /\ (last.req.code # None /\ last.req.state # NoId /\ last.seen = Null)
         => /\ last.status = 400 /\ last.error = "invalid_state"
            /\ last.written = {} /\ last.cookie = NoId
    /\ last.seen # Null => StateKey(last.req.state) \notin DOMAIN kv

\* a state whose first callback failed at the identity provider is presented
\* again with a good code, and is refused
C15_Witness ==
  /\ last.handler = "/auth/callback" /\ last.req.code = "g-u1"
  /\ last.after /\ last.error = "invalid_state"
  /\ StateKey(last.req.state) \in consumed
  /\ sessUser = <<>>

MissingParam(req) ==
  req.client_id = None \/ req.redirect_uri = None \/ req.state = NoId
    \/ req.code_challenge = None
NoCodeIssued(r) ==
  /\ \A k \in r.written : k[1] # "oauth:code"
  /\ r.location = NoLoc

\* C16: authorize request validation.  /oauth/authorize answers 400
\* invalid_request when client_id, redirect_uri, state or code_challenge is
\* missing; otherwise unsupported_response_type when response_type is not
\* code; otherwise invalid_request when code_challenge_method is not S256
\* (plain and absent included); and in each case no code is issued.
C16_AuthorizeValidation ==
  last.handler = "/oauth/authorize" =>
    /\ MissingParam(last.req)
         => last.status = 400 /\ last.error = "invalid_request" /\ NoCodeIssued(last)
    /\ (~MissingParam(last.req) /\ last.req.response_type # "code")
         => /\ last.status = 400 /\ last.error = "unsupported_response_type"
            /\ NoCodeIssued(last)
    /\ (~MissingParam(last.req) /\ last.req.response_type = "code"
          /\ last.req.code_challenge_method # "S256")
         => last.status = 400 /\ last.error = "invalid_request" /\ NoCodeIssued(last)

\* a signed-in user's request with code_challenge_method plain is refused
C16_Witness ==
  /\ last.handler = "/oauth/authorize"
  /\ last.req = [AuthorizeBase EXCEPT !.code_challenge_method = "plain"]
  /\ SessionOk(GetSession(last.cookie))
  /\ last.error = "invalid_request" /\ NoCodeIssued(last)

MalformedAuthorize(r) ==
  /\ r.handler = "/oauth/authorize"
  /\ \/ MissingParam(r.req) \/ r.req.response_type # "code"
     \/ r.req.code_challenge_method # "S256"
MalformedToken(r) ==
  /\ r.handler = "/oauth/token"
  /\ \/ r.req.grant_type = "authorization_code"
          /\ (r.req.code = NoId \/ r.req.redirect_uri = None
                \/ r.req.code_verifier = None)
     \/ r.req.grant_type = "refresh_token" /\ r.req.refresh_token = NoId
     \/ r.req.grant_type \notin {"authorization_code", "refresh_token"}

\* C17: malformed requests have no side effects.  A request to
\* /oauth/authorize or /oauth/token with a missing or invalid parameter is
\* answered 400 invalid_request, unsupported_response_type or
\* unsupported_grant_type without any store read, write or delete.
C17_MalformedNoEffect ==
  (MalformedAuthorize(last) \/ MalformedToken(last))
  => /\ last.status = 400
     /\ last.error \in {"invalid_request", "unsupported_response_type",
                        "unsupported_grant_type"}
     /\ last.reads = {} /\ last.written = {} /\ last.deleted = {}

\* a token request without code_verifier names a stored code, and the code is
\* still stored afterwards
C17_Witness ==
  /\ last.handler = "/oauth/token"
  /\ last.req = [GoodToken EXCEPT !.code_verifier = None]
  /\ last.error = "invalid_request"
  /\ Live(CodeKey(last.req.code))

OneTimeNamespaces == {"oauth:state", "oauth:code", "magic"}
\* the answer each validation gives for a value that was never issued
AsNeverIssued(r) ==
  /\ r.seen = Null /\ r.written = {} /\ r.deleted = {}
  /\ r.handler = "/auth/callback"
       => r.status = 400 /\ r.error = "invalid_state" /\ r.cookie = NoId
  /\ r.handler = "/oauth/token"
       => r.status = 400 /\ r.error = "invalid_grant" /\ r.access = NoId
  /\ r.handler = "validateMagicLink" => r.result = NoResult

\* C18: TTL expiry.  A CSRF state, a magic-link code and an authorization
\* code are each written with a store TTL of 600 seconds, and a validation
\* made more than 600 seconds after issuance, with no earlier validation,
\* fails exactly as for a value that was never issued.
C18_TtlExpiry ==
  [][ /\ \A k \in Written(kv, kv') :
           k[1] \in OneTimeNamespaces => kv'[k].exp = now + 600
      /\ (now > 600 /\ last' # last /\ last'.handler \in OneTimeHandlers)
           => AsNeverIssued(last') ]_vars

\* a state issued by /auth/login and never validated before is refused by the
\* callback once more than 600 seconds have passed
C18_Witness ==
  /\ now > 600
  /\ last.handler = "/auth/callback"
  /\ last.req.state <= Issued("oauth:state")
  /\ StateKey(last.req.state) \notin consumed
  /\ last.error = "invalid_state"

\* C19: metadata governs validity.  When checkAuthHealth finds the credential
\* record present and the metadata's expiresAt in the past, it reports
\* needsAction true, actionRequired token_expired and hasMonarchToken false.
C19_MetadataGoverns ==
  (/\ last.handler = "checkAuthHealth"
   /\ last.seen.token # Null /\ last.seen.tokenMeta # Null
   /\ last.seen.tokenMeta.expiresAt < last.req.at)
  => /\ last.result.needsAction
     /\ last.result.actionRequired = "token_expired"
     /\ ~last.result.hasMonarchToken

\* the credential record was stored and is unexpired, the metadata read with
\* it carries an expiresAt that has passed, and the credential is reported
\* expired
C19_Witness ==
  /\ last.handler = "checkAuthHealth"
  /\ last.seen.token # Null /\ last.seen.tokenMeta # Null
  /\ last.seen.tokenMeta.expiresAt < last.req.at
  /\ Live(TokenKey(last.req.userId))
  /\ last.result.actionRequired = "token_expired"

\* C20: fresh user.  Whenever checkAuthHealth finds no metadata record for the
\* user it reports needsAction true with actionRequired initial_setup,
\* whether or not the credential record is present.
C20_NoMetadataInitialSetup ==
  (last.handler = "checkAuthHealth" /\ last.seen.tokenMeta = Null)
  => last.result.needsAction /\ last.result.actionRequired = "initial_setup"

\* C21: healthy token.  With the credential present and metadata whose
\* expiresAt is 60 days after now, checkAuthHealth reports needsAction false,
\* hasMonarchToken true and no actionRequired, and getDaysUntilExpiry
\* returns 60.
C21_HealthyToken ==
  /\ (/\ last.handler = "checkAuthHealth"
      /\ last.seen.token # Null /\ last.seen.tokenMeta # Null
      /\ last.seen.tokenMeta.expiresAt = last.req.at + 60 * Day)
     => /\ ~last.result.needsAction
        /\ last.result.hasMonarchToken
        /\ last.result.actionRequired = None
  /\ (/\ last.handler = "getDaysUntilExpiry"
      /\ last.seen.tokenMeta # Null
      /\ last.seen.tokenMeta.expiresAt = last.req.at + 60 * Day)
     => ~last.result.isNull /\ last.result.days = 60

\* a credential stored by storeTokenWithMetadata 30 days ago is reported
\* healthy
C21_Witness ==
  /\ last.handler = "checkAuthHealth"
  /\ last.seen.token # Null /\ last.seen.tokenMeta # Null
  /\ last.seen.tokenMeta.createdAt = last.req.at - 30 * Day
  /\ last.seen.tokenMeta.expiresAt = last.req.at + 60 * Day
  /\ ~last.result.needsAction

\* C22: getDaysUntilExpiry returns null when no metadata record exists and
\* otherwise the integer ceil((expiresAt - now) / one day): at least 1 exactly
\* when expiresAt > now, 0 when expiresAt is now or less than one day in the
\* past, and negative for an older expiry.
C22_DaysUntilExpiry ==
  last.handler = "getDaysUntilExpiry" =>
    /\ last.result.isNull <=> last.seen.tokenMeta = Null
    /\ last.seen.tokenMeta # Null =>
         LET diff == last.seen.tokenMeta.expiresAt - last.req.at
             d == last.result.days
         IN /\ d * Day >= diff /\ (d - 1) * Day < diff
            /\ d >= 1 <=> diff > 0
            /\ d = 0 <=> (diff <= 0 /\ diff > -Day)
            /\ d < 0 <=> diff <= -Day

\* an expiresAt one second less than a day in the past gives 0, not -1
C22_Witness ==
  /\ last.handler = "getDaysUntilExpiry"
  /\ last.seen.tokenMeta # Null
  /\ last.seen.tokenMeta.expiresAt - last.req.at = 1 - Day
  /\ last.result.days = 0

\* C23: expiry monotonicity.  For a fixed stored expiresAt and no store write
\* in between, two calls of getDaysUntilExpiry at times t1 <= t2 return
\* d1 >= d2.
C23_DaysNeverIncrease ==
  (/\ last.handler = "getDaysUntilExpiry"
   /\ last.seen.prev.called
   /\ last.seen.tokenMeta # Null
   /\ last.seen.prev.tokenMeta = last.seen.tokenMeta)
  => /\ last.seen.prev.at <= last.req.at
     /\ last.seen.prev.result.days >= last.result.days

\* two calls a day apart on the same record, the second returning less
C23_Witness ==
  /\ last.handler = "getDaysUntilExpiry"
  /\ last.seen.prev.called
  /\ last.seen.tokenMeta # Null
  /\ last.seen.prev.tokenMeta = last.seen.tokenMeta
  /\ last.seen.prev.at + Day = last.req.at
  /\ last.seen.prev.result.days = last.result.days + 1

\* C24: every needs-action status is actionable.  Whenever checkAuthHealth
\* returns needsAction true, actionRequired is initial_setup or token_expired
\* and setupUrl is defined, for every combination of the baseUrl argument and
\* the PUBLIC_BASE_URL setting, both absent included.
C24_NeedsActionIsActionable ==
  (last.handler = "checkAuthHealth" /\ last.result.needsAction)
  => /\ last.result.actionRequired \in {"initial_setup", "token_expired"}
     /\ last.result.setupUrl # NoUrl

\* C25: threshold classification.  For every integer d of days remaining the
\* status report classifies d > 30 as healthy, 8..30 as refresh soon, 1..7 as
\* refresh now and d <= 0 as expired; the band generateStatusReport writes
\* and needsRefresh with the 7-day threshold agree with this for every d.
C25_ThresholdBands ==
  LET Classify(d) == IF d > 30 THEN "healthy"
                     ELSE IF d >= 8 THEN "refresh soon"
                     ELSE IF d >= 1 THEN "refresh now"
                     ELSE "expired"
      BandClass(band) == CASE band = "expires_in" -> "healthy"
                           [] band = "consider_refreshing_soon" -> "refresh soon"
                           [] band = "refresh_recommended" -> "refresh now"
                           [] OTHER -> "none"
  IN last.handler = "check_auth_status" =>
       /\ (last.seen.status.hasMonarchToken /\ ~last.seen.daysUntilExpiry.isNull)
            => BandClass(last.result.band) = Classify(last.seen.daysUntilExpiry.days)
       /\ ~last.seen.refreshDays.isNull =>
            LET c == Classify(last.seen.refreshDays.days)
                r == last.result.refreshStatus
            IN /\ c = "expired" => r.needsRefresh /\ r.reason = "token_has_expired"
               /\ c = "refresh now"
                    => r.needsRefresh /\ r.reason = "token_expires_in_days"
               /\ c \in {"refresh soon", "healthy"} => ~r.needsRefresh

\* C26: store failures are never swallowed.  When a store read fails during
\* checkAuthHealth or during session resolution the operation surfaces an
\* error to its caller, never a normal result such as initial_setup or
\* "no session".
C26_StoreFailureSurfaces ==
  /\ (last.handler = "checkAuthHealth"
        /\ (last.req.getTokenThrows \/ last.req.getThrows))
     => last.error # None
  /\ (last.handler = "validateSessionFromCookie" /\ last.req.getThrows)
     => last.error # None

\* C27: the credential/metadata pair is never partially updated.  No
\* checkAuthHealth running beside storeTokenWithMetadata observes a
\* credential with no metadata, and a failure between the two writes does
\* not leave the new credential in the store with the old or no metadata.
C27_PairNeverPartial ==
  /\ (last.handler = "checkAuthHealth" /\ last.seen.token # Null)
     => last.seen.tokenMeta # Null
  /\ (/\ last.handler = "storeTokenWithMetadata" /\ last.error # None
      /\ Live(TokenKey(last.req.userId))
      /\ kv[TokenKey(last.req.userId)].val.token = last.req.token)
     => /\ Live(TokenMetaKey(last.req.userId))
        /\ kv[TokenMetaKey(last.req.userId)].val.expiresAt = last.seen.expiresAt

\* C28: credentials are encrypted at rest.  The value storeTokenWithMetadata
\* writes under the user's credential key is the cipher's ciphertext of the
\* token, never the plaintext token.
C28_EncryptedAtRest ==
  (/\ last.handler = "storeTokenWithMetadata" /\ last.error = None
   /\ Live(TokenKey(last.req.userId)))
  => kv[TokenKey(last.req.userId)].val.token # last.req.token

C30_RoundTrip ==
  last.handler = "decryptString(encryptString)"
  => last.result = [v |-> last.req.plaintext]

\* C31: wrong-secret rejection.  For all secrets secret1 # secret2 and every
\* plaintext S, decryptString(secret2, encryptString(secret1, S)) fails with an
\* error and never returns a string.
C31_WrongSecretRejected ==
  (last.handler = "decryptString(encryptString other)"
   /\ last.req.secret1 # last.req.secret2)
  => "thrown" \in DOMAIN last.result

\* C32: generateMagicLink called with no baseUrl argument and no
\* PUBLIC_BASE_URL configured fails with a configuration error and leaves the
\* store unchanged: the failed call has written no magic:{code} record.
C32_NoBaseUrlNoRecord ==
  (last.handler = "generateMagicLink" /\ ~last.req.hasOrigin)
  => /\ last.error = "no_base_url"
     /\ last.written = {}

\* C33 as stated: every magic-link code is exactly 8 characters long, each
\* drawn from a 33-symbol alphabet made of digits 2-9 and uppercase letters
\* that contains none of 0, O, 1, I; and every random byte value 0..255 maps
\* to a symbol of that alphabet.
C33_Alphabet33 ==
  LET alphabet == {Chars[i] : i \in 1..Len(Chars)}
      code == last.result.code
  IN last.handler = "generateRandomCode"
     => /\ Len(code) = 8
        /\ \A i \in 1..Len(code) : code[i] \in alphabet
        /\ Cardinality(alphabet) = 33
        /\ alphabet \cap {"0", "O", "1", "I"} = {}

\* C33, amended: every magic-link code is exactly 8 characters long, each
\* drawn from a 32-symbol alphabet made of the digits 2-9 and the uppercase
\* letters other than I and O; every random byte value 0..255 maps to a symbol
\* of that alphabet, the one at index byte mod 32.
C33_Alphabet32 ==
  LET alphabet == {Chars[i] : i \in 1..Len(Chars)}
      digits == {"2", "3", "4", "5", "6", "7", "8", "9"}
      letters == {"A", "B", "C", "D", "E", "F", "G", "H", "I", "J", "K", "L", "M",
                  "N", "O", "P", "Q", "R", "S", "T", "U", "V", "W", "X", "Y", "Z"}
      code == last.result.code
  IN last.handler = "generateRandomCode"
     => /\ Len(code) = 8
        /\ \A i \in 1..Len(code) :
             /\ code[i] \in alphabet
             /\ code[i] = Chars[(last.req.randomValues[i] % 32) + 1]
        /\ Cardinality(alphabet) = 32
        /\ alphabet = digits \cup (letters \ {"I", "O"})

\* a code drawn from an array holding the largest byte value
C33_Witness ==
  /\ last.handler = "generateRandomCode"
  /\ last.req.randomValues[3] = 255 /\ last.req.randomValues[1] = 181
  /\ last.result.code[3] = "9" /\ last.result.code[1] = "X"

\* C34: logout removes exactly the session named by the request's cookie and
\* nothing else.  After GET /auth/logout with session id s, getSession(s) is
\* absent and a request carrying cookie s is unauthenticated, while every other
\* session and every access token and refresh token is unchanged and validates
\* as it did before.
C34_LogoutRemovesOneSession ==
  [][\A s \in Ids :
       AuthLogout(s)
       => /\ GetSession(s)' = Null
          /\ RequireAuth(s)' = Null
          /\ McpAuth(NoHeader, s)' = "login"
          /\ \A k \in DOMAIN kv \ {Key("session", s)} : k \in DOMAIN kv' /\ kv'[k] = kv[k]
          /\ \A o \in Ids \ {s} : GetSession(o)' = GetSession(o)
          /\ \A t \in AccessIds : ValidateAccessToken(t)' = ValidateAccessToken(t)
          /\ \A t \in Ids : ValidateRefreshToken(t)' = ValidateRefreshToken(t)]_vars

\* a logout that ended a live session of a user who holds another live
\* session, a live access token and a live refresh token
C34_Witness ==
  /\ last.handler = "/auth/logout"
  /\ last.deleted = {Key("session", last.cookie)}
  /\ \E o \in Ids \ {last.cookie} :
       /\ SessionOk(GetSession(o))
       /\ GetSession(o).userId = sessUser[last.cookie]
  /\ \E a \in AccessIds, r \in Ids :
       /\ ValidateAccessToken(a) # Null /\ ValidateRefreshToken(r) # Null
       /\ ValidateAccessToken(a).userId = sessUser[last.cookie]
       /\ ValidateRefreshToken(r).userId = sessUser[last.cookie]

\* C35: PKCE is never skipped.  In every state reachable through the HTTP
\* endpoints each stored authorization code has codeChallengeMethod S256, the
\* codes issued after the identify detour from the stored pending parameters
\* included, so no redemption succeeds without its transformed verifier being
\* equal to the stored challenge.
C35_PkceNeverSkipped ==
  /\ \A k \in DOMAIN kv :
       k[1] = "oauth:code" => kv[k].val.codeChallengeMethod = "S256"
  /\ \A p \in Procs :
       proc[p].pc = "token"
       => /\ proc[p].seen.codeChallengeMethod = "S256"
          /\ S256(proc[p].req.code_verifier) = proc[p].seen.codeChallenge
  /\ (IsCodeGrant(last) /\ last.status = 200)
     => /\ last.seen.codeChallengeMethod = "S256"
        /\ S256(last.req.code_verifier) = last.seen.codeChallenge

\* a code issued, after the login of the detour, to the parameters stored as
\* pending, is held with S256
C35_Witness ==
  /\ last.handler = "/oauth/authorize" /\ last.status = 302 /\ last.cookie # NoId
  /\ "code" \in DOMAIN last.location
  /\ KVGet(PendingKey(last.req.state)) = PendingData(last.req)
  /\ Live(CodeKey(last.location.code))
  /\ kv[CodeKey(last.location.code)].val.codeChallengeMethod = "S256"

\* C36: identity propagation.  In every reachable state each access token and
\* refresh token record carries the userId and clientId of the authorization
\* code it was minted from, whose userId is that of the authorizing session,
\* and an access token minted by a refresh grant carries the userId and clientId
\* of the refresh token presented; validateAccessToken never resolves a token
\* to a user other than the one who authorized it.
C36_IdentityPropagates ==
  /\ \A m \in minted :
       /\ m.key \in DOMAIN kv
          => kv[m.key].val.userId = m.userId /\ kv[m.key].val.clientId = m.clientId
       /\ m.grant = "authorization_code"
          => /\ m.userId = sessUser[codeVia[m.from].cookie]
             /\ m.userId = codeVia[m.from].sess.userId
             /\ m.clientId = codeVia[m.from].req.client_id
       /\ m.grant = "refresh_token"
          => \E r \in minted :
               /\ r.key = RefreshKey(m.from) /\ r.grant = "authorization_code"
               /\ r.userId = m.userId /\ r.clientId = m.clientId
  /\ (last.handler = "/mcp" /\ last.result.ok /\ last.req.authorization.scheme = "Bearer")
     => \E m \in minted :
          /\ m.key = AccessKey(last.req.authorization.token)
          /\ last.result.userId = m.userId

\* both users hold tokens, one of them an access token from a refresh grant,
\* and an MCP request with a token of the second user resolves to that user
C36_Witness ==
  /\ last.handler = "/mcp" /\ last.result.ok /\ last.result.userId = "u2"
  /\ \E m \in minted : m.userId = "u1" /\ m.grant = "refresh_token" /\ m.clientId = "c2"
  /\ \E m \in minted : m.userId = "u2" /\ m.grant = "authorization_code"

\* C37: authorization does not depend on client registration.  /oauth/authorize
\* issues a code and /oauth/token redeems it for any client_id and redirect_uri
\* without reading any oauth:client record, so codes and tokens are obtainable
\* for a client_id that was never registered and for a redirect_uri that is not
\* among a registered client's redirect_uris; the token endpoint never compares
\* the request's client_id with the clientId stored in the code.
C37_RegistrationNotConsulted ==
  /\ last.handler \in {"/oauth/authorize", "/oauth/token"}
     => \A k \in last.reads : k[1] # "oauth:client"
  /\ (last.handler = "/oauth/authorize"
        /\ last.req.client_id # None /\ last.req.redirect_uri # None
        /\ last.req.state # NoId /\ last.req.code_challenge # None
        /\ last.req.response_type = "code" /\ last.req.code_challenge_method = "S256"
        /\ last.cookie # NoId /\ SessionOk(GetSession(last.cookie)))
     => /\ last.status = 302 /\ "code" \in DOMAIN last.location
        /\ last.written = {CodeKey(last.location.code)}
        /\ KVGet(CodeKey(last.location.code)).clientId = last.req.client_id
        /\ KVGet(CodeKey(last.location.code)).redirectUri = last.req.redirect_uri
  /\ (IsCodeGrant(last) /\ last.seen # Null
        /\ last.seen.redirectUri = last.req.redirect_uri
        /\ S256(last.req.code_verifier) = last.seen.codeChallenge)
     => /\ last.status = 200 /\ last.access # NoId /\ last.refresh # NoId
        /\ last.result.clientId = last.seen.clientId

\* next to a client registered with redirect_uris [r1], a code issued to that
\* client's id for r2 is redeemed by a request naming another client, after a
\* token was minted for a client id that was never issued
C37_Witness ==
  /\ IsCodeGrant(last) /\ last.status = 200
  /\ last.seen.clientId = "c1" /\ last.seen.redirectUri = "r2"
  /\ last.req.client_id = "c9"
  /\ GetClient(1) # Null /\ GetClient(1).redirect_uris = [v |-> <<"r1">>]
  /\ ClientIdText(1) = last.seen.clientId
  /\ \E m \in minted : m.clientId = "c9"

\* C38: performTokenKeepAlive ordering.  When the metadata says the token has
\* expired (daysUntilExpiry <= 0) it returns success=false without calling
\* validateToken and without writing a validation record; in every other case
\* it calls validateToken once and writes exactly one validation record whose
\* success flag equals the validation result, and it returns success=true only
\* if that validation was valid.
C38_KeepAliveOrdering ==
  last.handler = "performTokenKeepAlive"
  => LET days == last.seen.daysUntilExpiry
         record == ValidationKey(last.req.userId)
     IN IF ~days.isNull /\ days.days <= 0
        THEN /\ ~last.result.success
             /\ last.seen.validateCalls = 0 /\ last.seen.accountsCalls = 0
             /\ last.written = {}
        ELSE /\ last.seen.validateCalls = 1
             /\ last.written = {record}
             /\ record \in DOMAIN kv
                => kv[record].val.success = last.seen.validation.valid
             /\ last.result.success <=> last.seen.validation.valid

\* a token with days left that the downstream service refuses: one
\* validation, recorded as failed
C38_Witness ==
  /\ last.handler = "performTokenKeepAlive"
  /\ ~last.seen.daysUntilExpiry.isNull /\ last.seen.daysUntilExpiry.days = 1
  /\ last.seen.validation = [valid |-> FALSE, error |-> "MonarchAuthError"]
  /\ ~last.result.success
  /\ KVGet(ValidationKey("u1")) # Null
  /\ KVGet(ValidationKey("u1")).success = FALSE

\* C39: credential gate.  A financial tool handler obtains a downstream client
\* through getMonarchClient, and so contacts the downstream service, only if
\* checkAuthHealth in that same call reported hasMonarchToken = true, that is
\* the credential was present and the metadata's expiresAt was in the future;
\* otherwise the handler ends with an error result and makes no downstream call.
C39_CredentialGate ==
  last.handler = "get_accounts"
  => LET reported ==
           /\ last.seen.token # Null /\ last.seen.tokenMeta # Null
           /\ last.seen.tokenMeta.expiresAt > last.seen.healthAt
     IN /\ last.seen.status.hasMonarchToken <=> reported
        /\ (last.result.client \/ last.result.downstreamCalls > 0) => reported
        /\ ~reported
           => /\ last.result.isError
              /\ ~last.result.client /\ last.result.downstreamCalls = 0

\* the tool reached the downstream service with a credential whose metadata
\* said it was good for more than a day
C39_Witness ==
  /\ last.handler = "get_accounts"
  /\ last.result.client /\ last.result.downstreamCalls = 1 /\ ~last.result.isError
  /\ last.seen.status.hasMonarchToken
  /\ last.seen.tokenMeta.expiresAt > last.seen.healthAt + Day

\* C40: credential refresh handler.  POST /auth/refresh writes the credential
\* and its metadata only under the userId of the session resolved from the
\* request's cookie and only after the downstream login returned a token; when
\* the session is invalid, the email or password is missing, or the downstream
\* login fails, the stored credential and metadata of every user are unchanged.
C40_RefreshWritesOwnCredential ==
  last.handler = "/auth/refresh"
  => LET before == last.seen.before
         after == last.seen.after
         changed == {k \in DOMAIN after : k \notin DOMAIN before \/ before[k] # after[k]}
         failed == \/ last.cookie = NoId \/ last.cookie \notin DOMAIN sessUser
                   \/ last.sess = Null
                   \/ last.req.body.email = None \/ last.req.body.password = None
                   \/ "thrown" \in DOMAIN last.req.login
     IN /\ DOMAIN before \subseteq DOMAIN after
        /\ failed => (changed = {} /\ last.written = {} /\ last.status # 200)
        /\ changed # {}
           => /\ ~failed
              /\ last.seen.called /\ last.req.login.token \in MonarchTokens
              /\ changed \subseteq {TokenKey(sessUser[last.cookie]),
                                      TokenMetaKey(sessUser[last.cookie])}
              /\ after[TokenKey(sessUser[last.cookie])].val
                   = [token |-> last.req.login.token]
              /\ after[TokenMetaKey(sessUser[last.cookie])].val.userId
                   = sessUser[last.cookie]
        /\ last.status = 200
           => /\ ~failed /\ last.req.login.token \in MonarchTokens
              /\ TokenKey(sessUser[last.cookie]) \in DOMAIN after
              /\ after[TokenKey(sessUser[last.cookie])].val
                   = [token |-> last.req.login.token]

\* the second user replaces a credential while the first user's stays as it was
C40_Witness ==
  /\ last.handler = "/auth/refresh" /\ last.status = 200
  /\ sessUser[last.cookie] = "u2"
  /\ TokenKey("u1") \in DOMAIN last.seen.before
  /\ TokenKey("u2") \in DOMAIN last.seen.before
  /\ last.seen.before[TokenKey("u2")].val # last.seen.after[TokenKey("u2")].val
  /\ last.seen.before[TokenKey("u1")] = last.seen.after[TokenKey("u1")]
====
